---- MODULE Spec2Model ----
(***************************************************************************)
(* Model of the CVE source plugin subsystem of gen0sec/mcp-server:         *)
(*   - CVEPluginManager   (plugins/plugin_manager.py): registry, dispatch  *)
(*     and the initialize_all / update_all batches                         *)
(*   - NucleiOpenSourcePlugin (plugins/nuclei_opensource.py): the archive  *)
(*     synchronisation and the local lookup                                *)
(*   - ProjectDiscoveryPlugin (plugins/projectdiscovery.py): the credential*)
(*     probe and the remote lookup                                         *)
(*   - ResourceUpdater (resource_updater.py): the refresh loop             *)
(* The specifications share the variables:                                 *)
(*   SpecRegistry : register / unregister / get_plugin / list_plugins      *)
(*   SpecDispatch : fetch_cve / fetch_cve_from_all over a sorted registry  *)
(*   SpecBatch    : initialize_all / update_all over a sorted registry     *)
(*   SpecArchive  : initialize / update of one archive plugin, step by     *)
(*                  step, concurrent with lookups on the same directory    *)
(*   SpecLookup   : the local lookup alone, over synced directories        *)
(*   SpecApi      : initialize / update / fetch_cve of one API plugin, and *)
(*                  the manager's loops run over it                        *)
(*   SpecManager  : all calls of the manager, from an empty registry       *)
(*   SpecUpdater  : start / stop and the loop threads; SpecUpdaterLoopFair *)
(*                  and SpecUpdaterStopFair add the fairness of the loop   *)
(*                  threads and of the caller of stop()                    *)
(*   SpecRefresh  : one archive plugin on a fresh host: the initialize()   *)
(*                  of start-up, then the update() of every refresh cycle; *)
(*                  SpecRefreshFair adds that the cycles go on and that    *)
(*                  the network and the disk work again and again          *)
(*   SpecServer   : main.py from start-up to exit: the registrations,      *)
(*                  initialize_all, start(), the loop thread, the signal   *)
(*                  handler's stop() and the exit of the process           *)
(***************************************************************************)
EXTENDS Integers, Sequences, FiniteSets, TLC

\* ------------------------------------------------------------------ bounds
\* The largest number of plugins a registry holds in the model.
MaxPlugins == 2

\* The largest number of refresh-loop threads alive at one time.
MaxThreads == 2

VARIABLES
  plugins,    \* CVEPluginManager._plugins: sequence of plugin records
  regOrder,   \* history: ids of the registered plugins, in registration order
  ret,        \* the return value (or raised exception) of the last manager call
  called,     \* history: the plugin.fetch_cve invocations of the last manager call
  fs,         \* the files under repo_folder of the archive plugin
  cfg,        \* the archive plugin's construction parameters
  sync,       \* the thread running initialize()/update(): position and locals
  prev,       \* history: summary of the previous completed initialize()/update()
  look,       \* the thread running NucleiOpenSourcePlugin.fetch_cve
  api,        \* the ProjectDiscoveryPlugin object: enabled, api_key, _api_verified
  apiret,     \* the last call on the ProjectDiscoveryPlugin and what it returned
  running,    \* ResourceUpdater._running
  thread,     \* ResourceUpdater._thread: the id of a loop thread, or NoThread
  loops,      \* the threads that run ResourceUpdater._run: position of each
  ucall       \* the caller of ResourceUpdater.start()/stop(): the call in progress

vars == <<plugins, regOrder, ret, called, fs, cfg, sync, prev, look,
          api, apiret, running, thread, loops, ucall>>
regVars == <<plugins, regOrder, ret, called>>
archVars == <<fs, cfg, sync, prev, look>>
apiVars == <<api, apiret>>
updVars == <<running, thread, loops, ucall>>

\* ------------------------------------------------------------ characters
\* Strings the code inspects character by character are sequences of
\* one-character strings.
UpperOf == [c \in {"c", "v", "e", "x"} |->
              CASE c = "c" -> "C" [] c = "v" -> "V" [] c = "e" -> "E" [] c = "x" -> "X"]
LowerOf == [c \in {"C", "V", "E", "X"} |->
              CASE c = "C" -> "c" [] c = "V" -> "v" [] c = "E" -> "e" [] c = "X" -> "x"]

UpperChar(c) == IF c \in DOMAIN UpperOf THEN UpperOf[c] ELSE c
LowerChar(c) == IF c \in DOMAIN LowerOf THEN LowerOf[c] ELSE c

\* str.upper() / str.lower()
Upper(s) == [i \in 1..Len(s) |-> UpperChar(s[i])]
Lower(s) == [i \in 1..Len(s) |-> LowerChar(s[i])]

\* str.startswith(prefix)
StartsWith(s, prefix) ==
  /\ Len(prefix) <= Len(s)
  /\ SubSeq(s, 1, Len(prefix)) = prefix

\* `needle in haystack` on strings
Contains(haystack, needle) ==
  \E i \in 0..(Len(haystack) - Len(needle)) :
     SubSeq(haystack, i + 1, i + Len(needle)) = needle

\* ------------------------------------------------------------- the plugins
NucleiName == "Nuclei Open Source (GitHub)"
PDName == "ProjectDiscovery API"
Names == {NucleiName, PDName}

\* The priorities the plugins are constructed with (the defaults of the two
\* plugin classes).
NucleiDefaultPriority == 100
PDDefaultPriority == 50
Priorities == {PDDefaultPriority, NucleiDefaultPriority}

PluginIds == 1..MaxPlugins

\* A plugin object: CVESourcePlugin's name, priority and enabled, and `ready`,
\* its backend's readiness (the templates directory exists / an API key is
\* set). `id` is the object's identity.
PluginAttrs == [name : Names, priority : Priorities, enabled : BOOLEAN, ready : BOOLEAN]

MkPlugin(i, a) ==
  [id |-> i, name |-> a.name, priority |-> a.priority,
   enabled |-> a.enabled, ready |-> a.ready]

\* is_available(): enabled and the backend is ready.
IsAvailable(p) == p.enabled /\ p.ready

\* ---------------------------------------------------------------- sorting
\* list.sort(key=lambda p: p.priority) is a stable sort: an element goes
\* after every element whose key is not larger.
RECURSIVE InsertByPriority(_, _)
InsertByPriority(s, p) ==
  IF s = <<>> THEN <<p>>
  ELSE IF Head(s).priority <= p.priority
       THEN <<Head(s)>> \o InsertByPriority(Tail(s), p)
       ELSE <<p>> \o s

RECURSIVE InsertBeforeEqual(_, _)
InsertBeforeEqual(s, p) ==
  IF s = <<>> THEN <<p>>
  ELSE IF Head(s).priority < p.priority
       THEN <<Head(s)>> \o InsertBeforeEqual(Tail(s), p)
       ELSE <<p>> \o s

\* A sort that is not stable: an element goes before its equals.
RECURSIVE SortUnstable(_)
SortUnstable(s) ==
  IF s = <<>> THEN <<>>
  ELSE InsertBeforeEqual(SortUnstable(SubSeq(s, 1, Len(s) - 1)), s[Len(s)])

RECURSIVE SortByPriority(_)
SortByPriority(s) ==
  IF s = <<>> THEN <<>>
  ELSE InsertByPriority(SortByPriority(SubSeq(s, 1, Len(s) - 1)), s[Len(s)])

\* The index of the first plugin named n, 0 when there is none.
LastNamed(s, n) ==
  IF \E i \in 1..Len(s) : s[i].name = n
  THEN CHOOSE i \in 1..Len(s) :
         /\ s[i].name = n
         /\ \A j \in (i + 1)..Len(s) : s[j].name # n
  ELSE 0

FirstNamed(s, n) ==
  IF \E i \in 1..Len(s) : s[i].name = n
  THEN CHOOSE i \in 1..Len(s) :
         /\ s[i].name = n
         /\ \A j \in 1..(i - 1) : s[j].name # n
  ELSE 0

RemoveAt(s, i) == SubSeq(s, 1, i - 1) \o SubSeq(s, i + 1, Len(s))

\* [x for x in s if Test(x)]
RECURSIVE SelectNamed(_, _)
SelectNamed(s, n) ==
  IF s = <<>> THEN <<>>
  ELSE IF Head(s).name = n
       THEN <<Head(s)>> \o SelectNamed(Tail(s), n)
       ELSE SelectNamed(Tail(s), n)

\* [p.name for p in s]
NamesOf(s) == [i \in 1..Len(s) |-> s[i].name]

\* [p.name for p in s if p.enabled]
RECURSIVE EnabledNamesOf(_)
EnabledNamesOf(s) ==
  IF s = <<>> THEN <<>>
  ELSE IF Head(s).enabled
       THEN <<Head(s).name>> \o EnabledNamesOf(Tail(s))
       ELSE EnabledNamesOf(Tail(s))

NoReturn == [kind |-> "none"]

\* -------------------------------------------------- registry operations
\* CVEPluginManager.register(plugin), with the plugin object just constructed
\* (an object is registered once; its identity is the smallest free id).
FreeId == CHOOSE i \in PluginIds :
            /\ \A k \in 1..Len(plugins) : plugins[k].id # i
            /\ \A j \in PluginIds :
                 (\A k \in 1..Len(plugins) : plugins[k].id # j) => i <= j

Register(a) ==
  /\ Len(plugins) < MaxPlugins
  /\ LET p == MkPlugin(FreeId, a) IN
       /\ plugins' = SortByPriority(Append(plugins, p))
       /\ regOrder' = Append(regOrder, p.id)
  /\ ret' = [kind |-> "register", id |-> FreeId]
  /\ called' = <<>>
  /\ UNCHANGED archVars
  /\ UNCHANGED <<apiVars, updVars>>

\* CVEPluginManager.unregister(plugin_name)
Unregister(n) ==
  /\ LET i == FirstNamed(plugins, n) IN
       IF i # 0
       THEN /\ plugins' = RemoveAt(plugins, i)
            /\ regOrder' = SelectSeq(regOrder, LAMBDA x : x # plugins[i].id)
            /\ ret' = [kind |-> "unregister", name |-> n, value |-> TRUE]
       ELSE /\ UNCHANGED <<plugins, regOrder>>
            /\ ret' = [kind |-> "unregister", name |-> n, value |-> FALSE]
  /\ called' = <<>>
  /\ UNCHANGED archVars
  /\ UNCHANGED <<apiVars, updVars>>

\* CVEPluginManager.get_plugin(plugin_name)
GetPlugin(n) ==
  /\ LET i == FirstNamed(plugins, n) IN
       ret' = IF i # 0
              THEN [kind |-> "get_plugin", name |-> n, found |-> TRUE, id |-> plugins[i].id]
              ELSE [kind |-> "get_plugin", name |-> n, found |-> FALSE, id |-> 0]
  /\ called' = <<>>
  /\ UNCHANGED <<plugins, regOrder, fs, cfg, sync, prev, look>>
  /\ UNCHANGED <<apiVars, updVars>>

\* CVEPluginManager.list_plugins()
ListOf(s) ==
  [i \in 1..Len(s) |->
     [name |-> s[i].name, priority |-> s[i].priority,
      enabled |-> s[i].enabled, available |-> IsAvailable(s[i])]]

ListPlugins ==
  /\ ret' = [kind |-> "list", value |-> ListOf(plugins)]
  /\ called' = <<>>
  /\ UNCHANGED <<plugins, regOrder, fs, cfg, sync, prev, look>>
  /\ UNCHANGED <<apiVars, updVars>>

\* ------------------------------------------------------------- dispatch
\* The identifiers a caller passes ("cve-1", "CVE-2").
CveIds == { <<"c", "v", "e", "-", "1">>, <<"C", "V", "E", "-", "2">> }

\* fetch's `source` argument: None, the empty string, a plugin name, or a name
\* no plugin has.
NoSource == "<None>"
SourceArgs == {NoSource, "", "Foo"} \cup Names

\* What a plugin's fetch_cve does in one invocation.
Behaviours == {"result", "notfound", "raise"}

CvePrefix == <<"C", "V", "E", "-">>

\* ProjectDiscoveryPlugin.fetch_cve: cve_id = cve_id.upper(), prefixed with
\* "CVE-" when it does not start with it.
ApiNormalizeId(cve_id) ==
  LET u == Upper(cve_id) IN
    IF StartsWith(u, CvePrefix) THEN u ELSE CvePrefix \o u

\* The CVEResult a plugin builds when it has the identifier, None when it
\* has not, or the exception it raises.
PluginFetch(p, cve_id, b) ==
  CASE b = "result" ->
         [kind |-> "result",
          cve_id |-> IF p.name = PDName THEN ApiNormalizeId(cve_id) ELSE cve_id,
          source |-> p.name,
          content |-> "template"]
    [] b = "notfound" -> [kind |-> "none"]
    [] b = "raise" -> [kind |-> "raise", msg |-> "boom"]

\* f"{plugin.name}: {text}"
Diag(n, text) == [name |-> n, msg |-> text]

\* One fetch_cve invocation as the history records it.
Invocation(p, r) ==
  [id |-> p.id, name |-> p.name, enabled |-> p.enabled,
   available |-> IsAvailable(p), res |-> r.kind]

\* The loop of fetch_cve without its try/except: a plugin's exception leaves
\* the loop and the call.
RECURSIVE FetchLoopNoCatch(_, _, _, _, _)
FetchLoopNoCatch(q, cve_id, beh, errors, log) ==
  IF q = <<>> THEN [end |-> "exhausted", errors |-> errors, log |-> log]
  ELSE LET p == Head(q) IN
    IF ~p.enabled THEN FetchLoopNoCatch(Tail(q), cve_id, beh, errors, log)
    ELSE IF ~IsAvailable(p)
    THEN FetchLoopNoCatch(Tail(q), cve_id, beh,
                          Append(errors, Diag(p.name, "not available")), log)
    ELSE LET r == PluginFetch(p, cve_id, beh[p.id])
             log2 == Append(log, Invocation(p, r))
         IN CASE r.kind = "result" ->
                   [end |-> "found", result |-> r, errors |-> errors, log |-> log2]
              [] r.kind = "none" ->
                   FetchLoopNoCatch(Tail(q), cve_id, beh,
                                    Append(errors, Diag(p.name, "not found")), log2)
              [] r.kind = "raise" ->
                   [end |-> "raised", msg |-> r.msg, errors |-> errors, log |-> log2]

\* The loop of fetch_cve in which a later result replaces an earlier one.
RECURSIVE FetchLoopLastWins(_, _, _, _, _)
FetchLoopLastWins(q, cve_id, beh, errors, log) ==
  IF q = <<>> THEN [end |-> "exhausted", errors |-> errors, log |-> log]
  ELSE LET p == Head(q) IN
    IF ~p.enabled THEN FetchLoopLastWins(Tail(q), cve_id, beh, errors, log)
    ELSE IF ~IsAvailable(p)
    THEN FetchLoopLastWins(Tail(q), cve_id, beh,
                           Append(errors, Diag(p.name, "not available")), log)
    ELSE LET r == PluginFetch(p, cve_id, beh[p.id])
             log2 == Append(log, Invocation(p, r))
             rest == FetchLoopLastWins(Tail(q), cve_id, beh, errors, log2)
         IN CASE r.kind = "result" ->
                   IF rest.end = "found" THEN rest
                   ELSE [end |-> "found", result |-> r, errors |-> errors,
                         log |-> rest.log]
              [] r.kind = "none" ->
                   FetchLoopLastWins(Tail(q), cve_id, beh,
                                     Append(errors, Diag(p.name, "not found")), log2)
              [] r.kind = "raise" ->
                   FetchLoopLastWins(Tail(q), cve_id, beh,
                                     Append(errors, Diag(p.name, r.msg)), log2)

\* The loop of fetch_cve that goes on after the first result (and keeps it).
RECURSIVE FetchLoopNoReturn(_, _, _, _, _)
FetchLoopNoReturn(q, cve_id, beh, errors, log) ==
  IF q = <<>> THEN [end |-> "exhausted", errors |-> errors, log |-> log]
  ELSE LET p == Head(q) IN
    IF ~p.enabled THEN FetchLoopNoReturn(Tail(q), cve_id, beh, errors, log)
    ELSE IF ~IsAvailable(p)
    THEN FetchLoopNoReturn(Tail(q), cve_id, beh,
                           Append(errors, Diag(p.name, "not available")), log)
    ELSE LET r == PluginFetch(p, cve_id, beh[p.id])
             log2 == Append(log, Invocation(p, r))
             rest == FetchLoopNoReturn(Tail(q), cve_id, beh, errors, log2)
         IN CASE r.kind = "result" ->
                   [end |-> "found", result |-> r, errors |-> errors,
                    log |-> rest.log]
              [] r.kind = "none" ->
                   FetchLoopNoReturn(Tail(q), cve_id, beh,
                                     Append(errors, Diag(p.name, "not found")), log2)
              [] r.kind = "raise" ->
                   FetchLoopNoReturn(Tail(q), cve_id, beh,
                                     Append(errors, Diag(p.name, r.msg)), log2)

\* The loop of fetch_cve without the enabled / is_available() tests.
RECURSIVE FetchLoopNoSkip(_, _, _, _, _)
FetchLoopNoSkip(q, cve_id, beh, errors, log) ==
  IF q = <<>> THEN [end |-> "exhausted", errors |-> errors, log |-> log]
  ELSE LET p == Head(q)
           r == PluginFetch(p, cve_id, beh[p.id])
           log2 == Append(log, Invocation(p, r))
       IN CASE r.kind = "result" ->
                 [end |-> "found", result |-> r, errors |-> errors, log |-> log2]
            [] r.kind = "none" ->
                 FetchLoopNoSkip(Tail(q), cve_id, beh,
                                 Append(errors, Diag(p.name, "not found")), log2)
            [] r.kind = "raise" ->
                 FetchLoopNoSkip(Tail(q), cve_id, beh,
                                 Append(errors, Diag(p.name, r.msg)), log2)

\* `for plugin in plugins_to_query:` of CVEPluginManager.fetch_cve. q is what
\* is left of the list; errors and log are what has been collected so far.
RECURSIVE FetchLoop(_, _, _, _, _)
FetchLoop(q, cve_id, beh, errors, log) ==
  IF q = <<>> THEN [end |-> "exhausted", errors |-> errors, log |-> log]
  ELSE LET p == Head(q) IN
    IF ~p.enabled THEN FetchLoop(Tail(q), cve_id, beh, errors, log)
    ELSE IF ~IsAvailable(p)
    THEN FetchLoop(Tail(q), cve_id, beh,
                   Append(errors, Diag(p.name, "not available")), log)
    ELSE LET r == PluginFetch(p, cve_id, beh[p.id])
             log2 == Append(log, Invocation(p, r))
         IN CASE r.kind = "result" ->
                   [end |-> "found", result |-> r, errors |-> errors, log |-> log2]
              [] r.kind = "none" ->
                   FetchLoop(Tail(q), cve_id, beh,
                             Append(errors, Diag(p.name, "not found")), log2)
              [] r.kind = "raise" ->
                   FetchLoop(Tail(q), cve_id, beh,
                             Append(errors, Diag(p.name, r.msg)), log2)

\* `if source:`
Truthy(source) == source \notin {NoSource, ""}

\* plugins_to_query that is not narrowed to the named source.
PluginsToQueryAll(s, source) == s

\* plugins_to_query of CVEPluginManager.fetch_cve
PluginsToQuery(s, source) ==
  IF Truthy(source) THEN SelectNamed(s, source) ELSE s

\* fetch_cve without its `if not self._plugins` test.
FetchCveNoEmptyTest(s, cve_id, source, beh) ==
  LET q == PluginsToQuery(s, source) IN
    IF Truthy(source) /\ q = <<>>
    THEN [out |-> [kind |-> "fetch", success |-> FALSE,
                   error |-> <<"source not found", source>>,
                   cve_id |-> cve_id, available_sources |-> NamesOf(s)],
          log |-> <<>>]
    ELSE LET l == FetchLoop(q, cve_id, beh, <<>>, <<>>) IN
      CASE l.end = "found" ->
             [out |-> [kind |-> "fetch", success |-> TRUE, cve_id |-> l.result.cve_id,
                       source |-> l.result.source, content |-> l.result.content],
              log |-> l.log]
        [] l.end = "exhausted" ->
             [out |-> [kind |-> "fetch", success |-> FALSE,
                       error |-> <<"not found in any source", cve_id>>,
                       cve_id |-> cve_id,
                       sources_checked |-> EnabledNamesOf(q),
                       details |-> l.errors],
              log |-> l.log]
        [] l.end = "raised" ->
             [out |-> [kind |-> "raised", msg |-> l.msg], log |-> l.log]

\* CVEPluginManager.fetch_cve(cve_id, source): the returned dict (kind
\* "fetch"), or the exception that leaves the call (kind "raised"), and the
\* invocations made.
FetchCve(s, cve_id, source, beh) ==
  IF s = <<>>
  THEN [out |-> [kind |-> "fetch", success |-> FALSE, error |-> <<"no plugins">>,
                 cve_id |-> cve_id],
        log |-> <<>>]
  ELSE LET q == PluginsToQuery(s, source) IN
    IF Truthy(source) /\ q = <<>>
    THEN [out |-> [kind |-> "fetch", success |-> FALSE,
                   error |-> <<"source not found", source>>,
                   cve_id |-> cve_id, available_sources |-> NamesOf(s)],
          log |-> <<>>]
    ELSE LET l == FetchLoop(q, cve_id, beh, <<>>, <<>>) IN
      CASE l.end = "found" ->
             [out |-> [kind |-> "fetch", success |-> TRUE, cve_id |-> l.result.cve_id,
                       source |-> l.result.source, content |-> l.result.content],
              log |-> l.log]
        [] l.end = "exhausted" ->
             [out |-> [kind |-> "fetch", success |-> FALSE,
                       error |-> <<"not found in any source", cve_id>>,
                       cve_id |-> cve_id,
                       sources_checked |-> EnabledNamesOf(q),
                       details |-> l.errors],
              log |-> l.log]
        [] l.end = "raised" ->
             [out |-> [kind |-> "raised", msg |-> l.msg], log |-> l.log]

Fetch(cve_id, source, beh) ==
  /\ ret = NoReturn
  /\ LET f == FetchCve(plugins, cve_id, source, beh) IN
       /\ ret' = f.out @@ [arg_id |-> cve_id, arg_source |-> source]
       /\ called' = f.log
  /\ UNCHANGED <<plugins, regOrder, fs, cfg, sync, prev, look>>
  /\ UNCHANGED <<apiVars, updVars>>

\* results[key] = value on a dict kept as a sequence of entries in insertion
\* order: an existing key keeps its place and takes the new value.
DictSet(d, e) ==
  IF \E i \in 1..Len(d) : d[i].name = e.name
  THEN [i \in 1..Len(d) |-> IF d[i].name = e.name THEN e ELSE d[i]]
  ELSE Append(d, e)

\* The loop of fetch_cve_from_all that stops at the first result.
RECURSIVE FetchAllLoopShort(_, _, _, _, _)
FetchAllLoopShort(q, cve_id, beh, results, log) ==
  IF q = <<>> THEN [results |-> results, log |-> log]
  ELSE LET p == Head(q) IN
    IF ~p.enabled \/ ~IsAvailable(p)
    THEN FetchAllLoopShort(Tail(q), cve_id, beh, results, log)
    ELSE LET r == PluginFetch(p, cve_id, beh[p.id])
             log2 == Append(log, Invocation(p, r))
         IN CASE r.kind = "result" ->
                   [results |-> DictSet(results, [name |-> p.name, success |-> TRUE,
                                                   content |-> r.content]),
                    log |-> log2]
              [] r.kind = "none" ->
                   FetchAllLoopShort(Tail(q), cve_id, beh,
                      DictSet(results, [name |-> p.name, success |-> FALSE,
                                        error |-> "Not found"]), log2)
              [] r.kind = "raise" ->
                   FetchAllLoopShort(Tail(q), cve_id, beh,
                      DictSet(results, [name |-> p.name, success |-> FALSE,
                                        error |-> r.msg]), log2)

\* `for plugin in self._plugins:` of CVEPluginManager.fetch_cve_from_all
RECURSIVE FetchAllLoop(_, _, _, _, _)
FetchAllLoop(q, cve_id, beh, results, log) ==
  IF q = <<>> THEN [results |-> results, log |-> log]
  ELSE LET p == Head(q) IN
    IF ~p.enabled \/ ~IsAvailable(p)
    THEN FetchAllLoop(Tail(q), cve_id, beh, results, log)
    ELSE LET r == PluginFetch(p, cve_id, beh[p.id])
             log2 == Append(log, Invocation(p, r))
         IN CASE r.kind = "result" ->
                   FetchAllLoop(Tail(q), cve_id, beh,
                      DictSet(results, [name |-> p.name, success |-> TRUE,
                                        content |-> r.content]), log2)
              [] r.kind = "none" ->
                   FetchAllLoop(Tail(q), cve_id, beh,
                      DictSet(results, [name |-> p.name, success |-> FALSE,
                                        error |-> "Not found"]), log2)
              [] r.kind = "raise" ->
                   FetchAllLoop(Tail(q), cve_id, beh,
                      DictSet(results, [name |-> p.name, success |-> FALSE,
                                        error |-> r.msg]), log2)

\* [name for name, r in results.items() if r.get("success")]
RECURSIVE FoundIn(_)
FoundIn(d) ==
  IF d = <<>> THEN <<>>
  ELSE IF Head(d).success THEN <<Head(d).name>> \o FoundIn(Tail(d))
       ELSE FoundIn(Tail(d))

\* CVEPluginManager.fetch_cve_from_all(cve_id)
FetchAll(cve_id, beh) ==
  /\ ret = NoReturn
  /\ LET l == FetchAllLoop(plugins, cve_id, beh, <<>>, <<>>) IN
       /\ ret' = [kind |-> "fetch_all", cve_id |-> cve_id, sources |-> l.results,
                  found_in |-> FoundIn(l.results), arg_id |-> cve_id]
       /\ called' = l.log
  /\ UNCHANGED <<plugins, regOrder, fs, cfg, sync, prev, look>>
  /\ UNCHANGED <<apiVars, updVars>>

\* The caller takes the returned value; the manager is ready for the next call.
Respond ==
  /\ ret # NoReturn
  /\ ret' = NoReturn
  /\ called' = <<>>
  /\ UNCHANGED <<plugins, regOrder, fs, cfg, sync, prev, look>>
  /\ UNCHANGED <<apiVars, updVars>>

\* ------------------------------------------------- the archive plugin
\* Version strings: "v1" stands for the default "v10.3.5", "v2" for a later
\* release.
DefaultVersion == <<"v", "1">>

\* str.strip() over the one whitespace character of the model
RECURSIVE LStrip(_)
LStrip(s) == IF s # <<>> /\ Head(s) = " " THEN LStrip(Tail(s)) ELSE s

RECURSIVE RStrip(_)
RStrip(s) ==
  IF s # <<>> /\ s[Len(s)] = " " THEN RStrip(SubSeq(s, 1, Len(s) - 1)) ELSE s

Strip(s) == RStrip(LStrip(s))

\* NucleiOpenSourcePlugin._normalize_version
NormalizeVersion(version) ==
  IF version = <<>> THEN DefaultVersion
  ELSE LET v == Strip(version) IN
         IF ~StartsWith(v, <<"v">>) THEN <<"v">> \o v ELSE v

\* The `version` argument the plugin is constructed with.
ConfiguredVersions == { <<>>, <<"v", "2">> }

\* What the "latest release" request gives: a transport or HTTP error, or a
\* JSON body with its tag_name ("" when the key is missing).
LatestOutcomes ==
  {[ok |-> FALSE, tag |-> <<>>]} \cup
  {[ok |-> TRUE, tag |-> t] : t \in { <<>>, <<"v", "1">>, <<"2", " ">> }}

\* The template files of a release, by file name: "cve-1x" is in every
\* release, "CVE-2" in v1 only, "x" in the others only.
CommonFile == <<"c", "v", "e", "-", "1", "x">>
OldFile == <<"C", "V", "E", "-", "2">>
NewFile == <<"x">>
Corpus(v) == IF v = DefaultVersion THEN {CommonFile, OldFile} ELSE {CommonFile, NewFile}

\* None, as _get_current_version returns it; no normalized version equals it.
NoVersion == <<>>

\* The templates directory: whether it exists, the template files under it,
\* and the content of .nuclei_version (NoVersion: no such file).
AbsentTree == [exists |-> FALSE, files |-> {}, sentinel |-> NoVersion]
Installed(v) == [exists |-> TRUE, files |-> Corpus(v), sentinel |-> v]

\* The temporary extraction directory: whether it exists, the template files
\* under it, and whether it holds exactly one entry that is a directory.
AbsentTmp == [exists |-> FALSE, files |-> {}, single |-> FALSE]

\* No latest-release request was sent.
NoLookup == [ok |-> FALSE, tag |-> <<"-">>]

\* _get_latest_version taking whatever the response holds for a tag, an
\* absent one included.
GetLatestVersionNoFallback(lat) ==
  IF lat.ok THEN NormalizeVersion(lat.tag) ELSE cfg.version

\* NucleiOpenSourcePlugin._get_latest_version
GetLatestVersion(lat) ==
  IF lat.ok /\ lat.tag # <<>> THEN NormalizeVersion(lat.tag) ELSE cfg.version

\* NucleiOpenSourcePlugin._get_target_version
GetTargetVersion(lat) ==
  IF cfg.auto_update THEN GetLatestVersion(lat) ELSE cfg.version

\* NucleiOpenSourcePlugin._get_current_version; readOk: read_text succeeds
GetCurrentVersion(tree, readOk) ==
  IF tree.exists /\ tree.sentinel # NoVersion /\ readOk
  THEN Strip(tree.sentinel)
  ELSE NoVersion

\* NucleiOpenSourcePlugin.is_available
ArchiveAvailable == cfg.enabled /\ fs.tpl.exists

IdleSync ==
  [pc |-> "idle", op |-> "none", target |-> NoVersion, res |-> "none",
   downloads |-> 0, failed |-> "none", pre |-> AbsentTree, readOk |-> TRUE,
   lookups |-> 0, lat |-> NoLookup]

NoPrev == [op |-> "none", target |-> NoVersion, res |-> "none", downloads |-> 0]

\* What is kept of a completed call when the next one begins: an initialize()
\* that downloaded and returned True, with its target; nothing of any other.
Summary(c) ==
  IF c.op = "initialize" /\ c.res = "true" /\ c.downloads = 1
  THEN [op |-> c.op, target |-> c.target, res |-> c.res, downloads |-> c.downloads]
  ELSE NoPrev

CanCall == sync.pc \in {"idle", "done"}

\* lookups: the latest-release requests the call has sent; lat: what the
\* request gave (NoLookup when none was sent).
Begin(op, target, readOk) ==
  [pc |-> "idle", op |-> op, target |-> target, res |-> "none",
   downloads |-> 0, failed |-> "none", pre |-> fs.tpl, readOk |-> readOk,
   lookups |-> 0, lat |-> NoLookup]

Return(c, value) == [c EXCEPT !.pc = "done", !.res = value]

\* After `if current_version == target_version` was false: remove the old
\* directory if there is one, then _download_and_extract.
AfterCompare(c) ==
  [c EXCEPT !.pc = IF fs.tpl.exists THEN "rm_old" ELSE "download"]

\* NucleiOpenSourcePlugin.initialize, up to the version comparison.
\* mkdirOk: repo_folder.mkdir succeeds; lat: the latest-release request;
\* readOk: the sentinel file can be read.
CallInitialize(mkdirOk, lat, readOk) ==
  /\ CanCall
  /\ prev' = Summary(sync)
  /\ LET c == [Begin("initialize", GetTargetVersion(lat), readOk)
                 EXCEPT !.lookups = IF cfg.auto_update THEN 1 ELSE 0,
                        !.lat = IF cfg.auto_update THEN lat ELSE NoLookup] IN
       IF ~fs.repo /\ ~mkdirOk
       THEN /\ sync' = Return([c EXCEPT !.target = NoVersion, !.failed = "mkdir",
                                        !.lookups = 0, !.lat = NoLookup], "raised")
            /\ fs' = fs
       ELSE /\ fs' = [fs EXCEPT !.repo = TRUE]
            /\ sync' = IF GetCurrentVersion(fs.tpl, readOk) = c.target
                       THEN Return(c, "true")
                       ELSE AfterCompare(c)
  /\ UNCHANGED <<plugins, regOrder, ret, called, cfg, look>>
  /\ UNCHANGED <<apiVars, updVars>>

\* update() without the `if not self.auto_update` test: it always looks the
\* latest release up and syncs to it.
CallUpdateNoAutoTest(lat, readOk) ==
  /\ CanCall
  /\ prev' = Summary(sync)
  /\ LET c == [Begin("update", GetLatestVersion(lat), readOk)
                 EXCEPT !.lookups = 1, !.lat = lat] IN
       sync' = IF GetCurrentVersion(fs.tpl, readOk) = c.target
               THEN Return(c, "true")
               ELSE AfterCompare(c)
  /\ UNCHANGED <<plugins, regOrder, ret, called, fs, cfg, look>>
  /\ UNCHANGED <<apiVars, updVars>>

\* NucleiOpenSourcePlugin.update, up to the version comparison.
CallUpdate(lat, readOk) ==
  /\ CanCall
  /\ prev' = Summary(sync)
  /\ IF ~cfg.auto_update
     THEN sync' = Return(Begin("update", NoVersion, readOk), "true")
     ELSE LET c == [Begin("update", GetLatestVersion(lat), readOk)
                      EXCEPT !.lookups = 1, !.lat = lat] IN
            sync' = IF GetCurrentVersion(fs.tpl, readOk) = c.target
                    THEN Return(c, "true")
                    ELSE AfterCompare(c)
  /\ UNCHANGED <<plugins, regOrder, ret, called, fs, cfg, look>>
  /\ UNCHANGED <<apiVars, updVars>>

\* shutil.rmtree(self._templates_path) in initialize/update, entry by entry:
\* one template file or the sentinel file goes.
RmtreeFile ==
  /\ sync.pc = "rm_old"
  /\ \/ \E f \in fs.tpl.files : fs' = [fs EXCEPT !.tpl.files = @ \ {f}]
     \/ /\ fs.tpl.sentinel # NoVersion
        /\ fs' = [fs EXCEPT !.tpl.sentinel = NoVersion]
  /\ UNCHANGED <<plugins, regOrder, ret, called, cfg, sync, prev, look>>
  /\ UNCHANGED <<apiVars, updVars>>

\* ... and the emptied directory goes last.
RmtreeDir ==
  /\ sync.pc = "rm_old"
  /\ fs.tpl.files = {} /\ fs.tpl.sentinel = NoVersion
  /\ fs' = [fs EXCEPT !.tpl = AbsentTree]
  /\ sync' = [sync EXCEPT !.pc = "download"]
  /\ UNCHANGED <<plugins, regOrder, ret, called, cfg, prev, look>>
  /\ UNCHANGED <<apiVars, updVars>>

\* ... or an entry cannot be removed: rmtree raises, outside any try.
RmtreeFail ==
  /\ sync.pc = "rm_old"
  /\ sync' = Return([sync EXCEPT !.failed = "rmtree"], "raised")
  /\ UNCHANGED <<plugins, regOrder, ret, called, fs, cfg, prev, look>>
  /\ UNCHANGED <<apiVars, updVars>>

\* _download_and_extract: requests.get, raise_for_status and the write of
\* the zip file. getOk: the request succeeds; writeOk: the file is written
\* whole.
Download(getOk, writeOk) ==
  /\ sync.pc = "download"
  /\ IF getOk /\ fs.repo /\ writeOk
     THEN /\ fs' = [fs EXCEPT !.zip = TRUE]
          /\ sync' = [sync EXCEPT !.pc = "extract", !.downloads = 1]
     ELSE /\ fs' = [fs EXCEPT !.zip = @ \/ (getOk /\ fs.repo)]
          /\ sync' = [sync EXCEPT !.pc = "cleanup", !.downloads = 1,
                                  !.failed = "download"]
  /\ UNCHANGED <<plugins, regOrder, ret, called, cfg, prev, look>>
  /\ UNCHANGED <<apiVars, updVars>>

\* _download_and_extract: zip_ref.extractall(temp_path). layout: the archive
\* wraps its content in one folder or not; a failed extraction leaves some of
\* the files (part) behind, or nothing.
Extract(ok, layout, part) ==
  /\ sync.pc = "extract"
  /\ IF ok
     THEN /\ fs' = [fs EXCEPT !.tmp = [exists |-> TRUE,
                                       files |-> fs.tmp.files \cup Corpus(sync.target),
                                       single |-> layout = "nested" /\ ~fs.tmp.exists]]
          /\ sync' = [sync EXCEPT !.pc = "unlink"]
     ELSE /\ \/ fs' = fs
             \/ fs' = [fs EXCEPT !.tmp = [exists |-> TRUE,
                                          files |-> fs.tmp.files \cup part,
                                          single |-> FALSE]]
          /\ sync' = [sync EXCEPT !.pc = "cleanup", !.failed = "extract"]
  /\ UNCHANGED <<plugins, regOrder, ret, called, cfg, prev, look>>
  /\ UNCHANGED <<apiVars, updVars>>

\* _download_and_extract: zip_path.unlink()
Unlink(ok) ==
  /\ sync.pc = "unlink"
  /\ IF ok
     THEN /\ fs' = [fs EXCEPT !.zip = FALSE]
          /\ sync' = [sync EXCEPT !.pc = "rename"]
     ELSE /\ fs' = fs
          /\ sync' = [sync EXCEPT !.pc = "cleanup", !.failed = "unlink"]
  /\ UNCHANGED <<plugins, regOrder, ret, called, cfg, prev, look>>
  /\ UNCHANGED <<apiVars, updVars>>

\* _download_and_extract: remove the templates directory if it exists, then
\* rename the extracted folder (nested or the temporary directory itself)
\* to it.
Rename(ok) ==
  /\ sync.pc = "rename"
  /\ IF ok
     THEN /\ fs' = [fs EXCEPT !.tpl = [exists |-> TRUE, files |-> fs.tmp.files,
                                       sentinel |-> NoVersion],
                              !.tmp = IF fs.tmp.single
                                      THEN [exists |-> TRUE, files |-> {}, single |-> FALSE]
                                      ELSE AbsentTmp]
          /\ sync' = [sync EXCEPT !.pc = IF fs.tmp.single THEN "rmdir" ELSE "save"]
     ELSE /\ fs' = fs
          /\ sync' = [sync EXCEPT !.pc = "cleanup", !.failed = "rename"]
  /\ UNCHANGED <<plugins, regOrder, ret, called, cfg, prev, look>>
  /\ UNCHANGED <<apiVars, updVars>>

\* _download_and_extract: temp_path.rmdir() after the nested folder moved out
Rmdir(ok) ==
  /\ sync.pc = "rmdir"
  /\ IF ok
     THEN /\ fs' = [fs EXCEPT !.tmp = AbsentTmp]
          /\ sync' = [sync EXCEPT !.pc = "save"]
     ELSE /\ fs' = fs
          /\ sync' = [sync EXCEPT !.pc = "cleanup", !.failed = "rmdir"]
  /\ UNCHANGED <<plugins, regOrder, ret, called, cfg, prev, look>>
  /\ UNCHANGED <<apiVars, updVars>>

\* _save_version (a failed write is logged and swallowed), then return True
SaveVersion(ok) ==
  /\ sync.pc = "save"
  /\ fs' = IF ok THEN [fs EXCEPT !.tpl.sentinel = sync.target] ELSE fs
  /\ sync' = Return(sync, "true")
  /\ UNCHANGED <<plugins, regOrder, ret, called, cfg, prev, look>>
  /\ UNCHANGED <<apiVars, updVars>>

\* The except handler of _download_and_extract: unlink the zip file and
\* rmtree the temporary directory if they exist, return False. unlinkOk and
\* rmOk: the two removals succeed; a failing one raises out of the handler.
Cleanup(unlinkOk, rmOk) ==
  /\ sync.pc = "cleanup"
  /\ IF fs.zip /\ ~unlinkOk
     THEN /\ fs' = fs
          /\ sync' = Return(sync, "raised")
     ELSE IF fs.tmp.exists /\ ~rmOk
     THEN /\ fs' = [fs EXCEPT !.zip = FALSE]
          /\ sync' = Return(sync, "raised")
     ELSE /\ fs' = [fs EXCEPT !.zip = FALSE, !.tmp = AbsentTmp]
          /\ sync' = Return(sync, "false")
  /\ UNCHANGED <<plugins, regOrder, ret, called, cfg, prev, look>>
  /\ UNCHANGED <<apiVars, updVars>>

\* ------------------------------------------------ the archive lookup
\* The test without .upper()/.lower(): `cve_id in filename`.
MatchesExact(cve_id, filename) == Contains(filename, cve_id)

\* `cve_id_upper in filename.upper() or cve_id_lower in filename.lower()`
Matches(cve_id, filename) ==
  \/ Contains(Upper(filename), Upper(cve_id))
  \/ Contains(Lower(filename), Lower(cve_id))

IdleLook == [pc |-> "idle", cve_id |-> <<>>, res |-> "none", readFailed |-> FALSE]

\* NucleiOpenSourcePlugin.fetch_cve: `if not self.is_available(): return None`
LookupStart(cve_id) ==
  /\ look.pc \in {"idle", "done"}
  /\ look' = IF ArchiveAvailable
             THEN [pc |-> "walk", cve_id |-> cve_id, res |-> "none", readFailed |-> FALSE]
             ELSE [pc |-> "done", cve_id |-> cve_id, res |-> "notfound", readFailed |-> FALSE]
  /\ UNCHANGED <<plugins, regOrder, ret, called, fs, cfg, sync, prev>>
  /\ UNCHANGED <<apiVars, updVars>>

\* NucleiOpenSourcePlugin.fetch_cve: the walk over the files that are under
\* the templates directory now. unreadable: the files whose read_text fails
\* (logged, the walk goes on); the first match that can be read is returned.
\* scanOk: every directory rglob scans is still there when it scans it. While
\* shutil.rmtree is removing the tree (and has removed some of it) a
\* directory can go between its listing and its scan; pathlib then raises
\* FileNotFoundError out of rglob (up to Python 3.11) or passes over it
\* (from 3.12), and the `for` statement is outside any try.
LookupWalk(unreadable, scanOk) ==
  /\ look.pc = "walk"
  /\ LET hits == {f \in fs.tpl.files : Matches(look.cve_id, f)} IN
       look' = IF sync.pc = "rm_old" /\ fs.tpl # sync.pre /\ ~scanOk
               THEN [look EXCEPT !.pc = "done", !.res = "raised"]
               ELSE [look EXCEPT
                       !.pc = "done",
                       !.res = IF hits \ unreadable # {} THEN "found" ELSE "notfound",
                       !.readFailed = (hits \cap unreadable # {})]
  /\ UNCHANGED <<plugins, regOrder, ret, called, fs, cfg, sync, prev>>
  /\ UNCHANGED <<apiVars, updVars>>

\* ---------------------------------------------- the remote API plugin
\* The api_key the plugin is constructed with: none ("" stands for None and
\* for the empty string, both falsy) or a key.
ApiKeys == {"", "key"}

\* What one HTTP exchange gives: a timeout, another transport error, or a
\* response with its status and body. The body is a JSON object ("json"), not
\* JSON at all ("malformed": response.json() raises) or JSON of another shape
\* ("unformattable": _format_vulnerability_data raises).
Statuses == {200, 401, 403, 404, 429, 500}
Bodies == {"json", "malformed", "unformattable"}
ApiResponses ==
  {[kind |-> "timeout"], [kind |-> "error"]} \cup
  {[kind |-> "http", status |-> st, body |-> b] : st \in Statuses, b \in Bodies}

NoApiCall == [op |-> "none"]

\* CVESourcePlugin.is_available, not overridden: the enabled flag alone.
ApiAvailableBase(a) == a.enabled

\* is_available() that also requires the cached verified flag.
ApiAvailableVerified(a) == a.enabled /\ a.api_key # "" /\ a.verified

\* ProjectDiscoveryPlugin.is_available
ApiAvailable(a) == a.enabled /\ a.api_key # ""

\* _verify_api_key accepting status 200 only.
VerifyApiKeyOnly200(a, resp) ==
  IF a.api_key = "" THEN [value |-> FALSE, requests |-> 0]
  ELSE [requests |-> 1,
        value |-> resp.kind = "http" /\ resp.status = 200]

\* ProjectDiscoveryPlugin._verify_api_key: the value returned and the number
\* of requests sent.
VerifyApiKey(a, resp) ==
  IF a.api_key = "" THEN [value |-> FALSE, requests |-> 0]
  ELSE [requests |-> 1,
        value |-> CASE resp.kind = "timeout" -> FALSE
                    [] resp.kind = "error" -> FALSE
                    [] resp.kind = "http" ->
                         CASE resp.status = 200 -> TRUE
                           [] resp.status = 401 -> FALSE
                           [] resp.status = 403 -> FALSE
                           [] OTHER -> resp.status # 401]

\* ProjectDiscoveryPlugin.fetch_cve with the status tests replaced by
\* raise_for_status() outside the try: a status of 400 or more raises.
ApiFetchRaiseForStatus(a, cve_id, resp) ==
  IF ~ApiAvailable(a) THEN [kind |-> "none", requests |-> 0]
  ELSE LET id == ApiNormalizeId(cve_id) IN
    CASE resp.kind \in {"timeout", "error"} -> [kind |-> "none", requests |-> 1]
      [] resp.kind = "http" ->
           IF resp.status >= 400
           THEN [kind |-> "raise", requests |-> 1]
           ELSE IF resp.body = "json"
                THEN [kind |-> "result", cve_id |-> id, source |-> PDName,
                      content |-> <<"id: ", id>>, requests |-> 1]
                ELSE [kind |-> "none", requests |-> 1]

\* ProjectDiscoveryPlugin.fetch_cve: the CVEResult, None or the exception
\* that leaves the call, and the number of requests sent.
ApiFetch(a, cve_id, resp) ==
  IF ~ApiAvailable(a) THEN [kind |-> "none", requests |-> 0]
  ELSE LET id == ApiNormalizeId(cve_id) IN
    CASE resp.kind \in {"timeout", "error"} -> [kind |-> "none", requests |-> 1]
      [] resp.kind = "http" ->
           IF resp.status = 200
           THEN IF resp.body = "json"
                THEN [kind |-> "result", cve_id |-> id, source |-> PDName,
                      content |-> <<"id: ", id>>, requests |-> 1]
                ELSE [kind |-> "none", requests |-> 1]
           ELSE [kind |-> "none", requests |-> 1]

\* ProjectDiscoveryPlugin.initialize without `self.enabled = False`: a plugin
\* with no key reports failure and stays enabled.
ApiInitializeKeepsEnabled(resp) ==
  /\ IF api.api_key = ""
     THEN /\ api' = api
          /\ apiret' = [op |-> "initialize", value |-> FALSE, requests |-> 0,
                        resp |-> resp, pre |-> api]
     ELSE LET v == VerifyApiKey(api, resp) IN
          /\ api' = [api EXCEPT !.verified = v.value]
          /\ apiret' = [op |-> "initialize", value |-> v.value,
                        requests |-> v.requests, resp |-> resp, pre |-> api]
  /\ UNCHANGED <<regVars, archVars, updVars>>

\* ProjectDiscoveryPlugin.initialize
ApiInitialize(resp) ==
  /\ IF api.api_key = ""
     THEN /\ api' = [api EXCEPT !.enabled = FALSE]
          /\ apiret' = [op |-> "initialize", value |-> FALSE, requests |-> 0,
                        resp |-> resp, pre |-> api]
     ELSE LET v == VerifyApiKey(api, resp) IN
          /\ api' = [api EXCEPT !.verified = v.value]
          /\ apiret' = [op |-> "initialize", value |-> v.value,
                        requests |-> v.requests, resp |-> resp, pre |-> api]
  /\ UNCHANGED <<regVars, archVars, updVars>>

\* ProjectDiscoveryPlugin.update
ApiUpdate(resp) ==
  /\ LET v == VerifyApiKey(api, resp) IN
       /\ api' = [api EXCEPT !.verified = v.value]
       /\ apiret' = [op |-> "update", value |-> v.value,
                     requests |-> v.requests, resp |-> resp, pre |-> api]
  /\ UNCHANGED <<regVars, archVars, updVars>>

\* ProjectDiscoveryPlugin.fetch_cve(cve_id)
ApiFetchCve(cve_id, resp) ==
  /\ apiret' = [op |-> "fetch", arg |-> cve_id, resp |-> resp, pre |-> api,
                out |-> ApiFetch(api, cve_id, resp)]
  /\ api' = api
  /\ UNCHANGED <<regVars, archVars, updVars>>

\* ------------------------------------------- initialize_all / update_all
\* What one initialize() or update() of a plugin does: the value it returns
\* ("true", "false") or "raise", and `keep`: the backend is left as it was.
SyncOutcomes == [res : {"true", "false", "raise"}, keep : BOOLEAN]

\* plugin.initialize(): the outcome and the plugin afterwards. The API
\* plugin without a key disables itself and returns False, with a key it
\* returns the probe's verdict and never raises; the archive plugin has its
\* directory after True, has none after False, and after an exception has it
\* only if it had it and the failure left it in place.
PluginInitialize(p, o) ==
  IF p.name = PDName
  THEN IF ~p.ready
       THEN [res |-> "false", plugin |-> [p EXCEPT !.enabled = FALSE]]
       ELSE [res |-> IF o.res = "true" THEN "true" ELSE "false", plugin |-> p]
  ELSE [res |-> o.res,
        plugin |-> [p EXCEPT !.ready = CASE o.res = "true" -> TRUE
                                         [] o.res = "false" -> FALSE
                                         [] o.res = "raise" -> p.ready /\ o.keep]]

\* An update() that disables the plugin when it does not return True.
PluginUpdateDisables(p, o) ==
  IF p.name = PDName
  THEN [res |-> IF p.ready /\ o.res = "true" THEN "true" ELSE "false",
        plugin |-> [p EXCEPT !.enabled = p.ready /\ o.res = "true"]]
  ELSE [res |-> o.res,
        plugin |-> [p EXCEPT !.enabled = (o.res = "true"),
                             !.ready = CASE o.res = "true" -> (IF o.keep THEN p.ready ELSE TRUE)
                                         [] o.res = "false" -> FALSE
                                         [] o.res = "raise" -> p.ready /\ o.keep]]

\* plugin.update(): as initialize(), but the API plugin is not disabled and
\* the archive plugin's update() can return True without a sync.
PluginUpdate(p, o) ==
  IF p.name = PDName
  THEN [res |-> IF p.ready /\ o.res = "true" THEN "true" ELSE "false", plugin |-> p]
  ELSE [res |-> o.res,
        plugin |-> [p EXCEPT !.ready = CASE o.res = "true" -> (IF o.keep THEN p.ready ELSE TRUE)
                                         [] o.res = "false" -> FALSE
                                         [] o.res = "raise" -> p.ready /\ o.keep]]

\* One initialize()/update() invocation as the history records it, with the
\* value the loop stored under the plugin's name.
BatchInvocation(p, r, stored) ==
  [id |-> p.id, name |-> p.name, enabled |-> p.enabled, res |-> r.res,
   stored |-> stored]

\* The loop of initialize_all without its try/except: an exception leaves
\* the loop and the call.
RECURSIVE InitializeAllLoopAbort(_, _, _, _, _)
InitializeAllLoopAbort(q, beh, results, log, done) ==
  IF q = <<>> THEN [end |-> "returned", results |-> results, log |-> log, plugins |-> done]
  ELSE LET p == Head(q)
           r == PluginInitialize(p, beh[p.id])
       IN IF r.res = "raise"
          THEN [end |-> "raised", results |-> results,
                log |-> Append(log, BatchInvocation(p, r, FALSE)),
                plugins |-> done \o <<r.plugin>> \o Tail(q)]
          ELSE InitializeAllLoopAbort(Tail(q), beh,
                                      DictSet(results, [name |-> p.name, success |-> r.res = "true"]),
                                      Append(log, BatchInvocation(p, r, r.res = "true")),
                                      Append(done, r.plugin))

\* `for plugin in self._plugins:` of CVEPluginManager.initialize_all. done:
\* the plugins already visited, as their initialize() left them.
RECURSIVE InitializeAllLoop(_, _, _, _, _)
InitializeAllLoop(q, beh, results, log, done) ==
  IF q = <<>> THEN [end |-> "returned", results |-> results, log |-> log, plugins |-> done]
  ELSE LET p == Head(q)
           r == PluginInitialize(p, beh[p.id])
           stored == (r.res = "true")
       IN InitializeAllLoop(Tail(q), beh,
                            DictSet(results, [name |-> p.name, success |-> stored]),
                            Append(log, BatchInvocation(p, r, stored)),
                            Append(done, r.plugin))

\* The loop of update_all without the `if plugin.enabled` test.
RECURSIVE UpdateAllLoopNoSkip(_, _, _, _, _)
UpdateAllLoopNoSkip(q, beh, results, log, done) ==
  IF q = <<>> THEN [end |-> "returned", results |-> results, log |-> log, plugins |-> done]
  ELSE LET p == Head(q)
           r == PluginUpdate(p, beh[p.id])
           stored == (r.res = "true")
       IN UpdateAllLoopNoSkip(Tail(q), beh,
                              DictSet(results, [name |-> p.name, success |-> stored]),
                              Append(log, BatchInvocation(p, r, stored)),
                              Append(done, r.plugin))

\* `for plugin in self._plugins:` of CVEPluginManager.update_all
RECURSIVE UpdateAllLoop(_, _, _, _, _)
UpdateAllLoop(q, beh, results, log, done) ==
  IF q = <<>> THEN [end |-> "returned", results |-> results, log |-> log, plugins |-> done]
  ELSE LET p == Head(q) IN
    IF ~p.enabled
    THEN UpdateAllLoop(Tail(q), beh, results, log, Append(done, p))
    ELSE LET r == PluginUpdate(p, beh[p.id])
             stored == (r.res = "true")
         IN UpdateAllLoop(Tail(q), beh,
                          DictSet(results, [name |-> p.name, success |-> stored]),
                          Append(log, BatchInvocation(p, r, stored)),
                          Append(done, r.plugin))

\* The value a batch call hands back: the dict, or the exception.
BatchReturn(kind, l, before) ==
  IF l.end = "returned"
  THEN [kind |-> kind, value |-> l.results, before |-> before]
  ELSE [kind |-> "raised", of |-> kind, before |-> before]

\* CVEPluginManager.initialize_all()
InitializeAll(beh) ==
  /\ ret = NoReturn
  /\ LET l == InitializeAllLoop(plugins, beh, <<>>, <<>>, <<>>) IN
       /\ ret' = BatchReturn("initialize_all", l, plugins)
       /\ called' = l.log
       /\ plugins' = l.plugins
  /\ UNCHANGED <<regOrder, archVars, apiVars, updVars>>

\* CVEPluginManager.update_all()
UpdateAll(beh) ==
  /\ ret = NoReturn
  /\ LET l == UpdateAllLoop(plugins, beh, <<>>, <<>>, <<>>) IN
       /\ ret' = BatchReturn("update_all", l, plugins)
       /\ called' = l.log
       /\ plugins' = l.plugins
  /\ UNCHANGED <<regOrder, archVars, apiVars, updVars>>

\* ------------------------------------- the manager over the API plugin
\* The API plugin object as the manager's loops read it: name, priority,
\* enabled, and whether a key is set.
ApiAsPlugin(a) ==
  [id |-> 1, name |-> PDName, priority |-> PDDefaultPriority,
   enabled |-> a.enabled, ready |-> a.api_key # ""]

\* What the plugin's fetch_cve hands the manager for this exchange.
ApiBehaviour(a, cve_id, resp) ==
  IF ApiFetch(a, cve_id, resp).kind = "result" THEN "result" ELSE "notfound"

\* CVEPluginManager.fetch_cve(cve_id) on a registry that holds the API
\* plugin: how many times its fetch_cve was invoked, the requests sent.
ApiManagerFetch(cve_id, resp) ==
  /\ LET b == ApiBehaviour(api, cve_id, resp)
         l == FetchLoop(<<ApiAsPlugin(api)>>, cve_id, [i \in PluginIds |-> b], <<>>, <<>>)
     IN apiret' = [op |-> "manager_fetch", arg |-> cve_id, resp |-> resp, pre |-> api,
                   invoked |-> Len(l.log),
                   requests |-> IF l.log = <<>> THEN 0
                                ELSE ApiFetch(api, cve_id, resp).requests,
                   found |-> l.end = "found"]
  /\ api' = api
  /\ UNCHANGED <<regVars, archVars, updVars>>

\* CVEPluginManager.fetch_cve_from_all(cve_id) on that registry
ApiManagerFetchAll(cve_id, resp) ==
  /\ LET b == ApiBehaviour(api, cve_id, resp)
         l == FetchAllLoop(<<ApiAsPlugin(api)>>, cve_id, [i \in PluginIds |-> b], <<>>, <<>>)
     IN apiret' = [op |-> "manager_fetch_all", arg |-> cve_id, resp |-> resp, pre |-> api,
                   invoked |-> Len(l.log),
                   requests |-> IF l.log = <<>> THEN 0
                                ELSE ApiFetch(api, cve_id, resp).requests,
                   found |-> FoundIn(l.results) # <<>>]
  /\ api' = api
  /\ UNCHANGED <<regVars, archVars, updVars>>

\* CVEPluginManager.update_all() on that registry: an update() that is
\* invoked runs the probe and caches its verdict.
ApiManagerUpdateAll(resp) ==
  /\ LET v == VerifyApiKey(api, resp)
         o == [res |-> IF v.value THEN "true" ELSE "false", keep |-> TRUE]
         l == UpdateAllLoop(<<ApiAsPlugin(api)>>, [i \in PluginIds |-> o], <<>>, <<>>, <<>>)
     IN /\ apiret' = [op |-> "manager_update_all", resp |-> resp, pre |-> api,
                      invoked |-> Len(l.log),
                      requests |-> IF l.log = <<>> THEN 0 ELSE v.requests,
                      value |-> l.results]
        /\ api' = IF l.log = <<>> THEN api ELSE [api EXCEPT !.verified = v.value]
  /\ UNCHANGED <<regVars, archVars, updVars>>

\* ------------------------------------------------- the refresh loop
\* The threads that can run ResourceUpdater._run at one time.
LoopIds == 1..MaxThreads

\* self._thread = None
NoThread == 0

\* No thread with this id: never started, or it has left _run. `raised` of a
\* thread: its last completed update pass ended with an exception.
NoLoop == [pc |-> "none", raised |-> FALSE]

\* threading.Thread.is_alive()
IsAlive(t) == t # NoThread /\ loops[t].pc # "none"

IdleCall == [op |-> "none", pc |-> "idle", wasRunning |-> FALSE]

\* The caller is between two calls.
CanCallUpdater == ucall.op = "none"

\* ResourceUpdater.start() without the `if not self._running` test.
StartAlways ==
  /\ CanCallUpdater
  /\ \E t \in LoopIds :
       /\ loops[t].pc = "none"
       /\ \A u \in LoopIds : loops[u].pc = "none" => t <= u
       /\ running' = TRUE
       /\ loops' = [loops EXCEPT ![t] = [pc |-> "check", raised |-> FALSE]]
       /\ thread' = t
  /\ ucall' = [op |-> "start", pc |-> "done", wasRunning |-> running]
  /\ UNCHANGED <<regVars, archVars, apiVars>>

\* ResourceUpdater.start(): when the flag is not set, set it, create the
\* thread (the free id) and start it.
Start ==
  /\ CanCallUpdater
  /\ IF running
     THEN UNCHANGED <<running, loops, thread>>
     ELSE \E t \in LoopIds :
            /\ loops[t].pc = "none"
            /\ \A u \in LoopIds : loops[u].pc = "none" => t <= u
            /\ running' = TRUE
            /\ loops' = [loops EXCEPT ![t] = [pc |-> "check", raised |-> FALSE]]
            /\ thread' = t
  /\ ucall' = [op |-> "start", pc |-> "done", wasRunning |-> running]
  /\ UNCHANGED <<regVars, archVars, apiVars>>

\* ResourceUpdater.stop(), up to the join: return when the flag is not set,
\* else clear it; join when there is a thread and it is alive.
Stop ==
  /\ CanCallUpdater
  /\ IF ~running
     THEN /\ UNCHANGED <<running, thread, loops>>
          /\ ucall' = [op |-> "stop", pc |-> "done", wasRunning |-> FALSE]
     ELSE /\ running' = FALSE
          /\ UNCHANGED <<thread, loops>>
          /\ ucall' = [op |-> "stop", pc |-> IF IsAlive(thread) THEN "join" ELSE "done",
                       wasRunning |-> TRUE]
  /\ UNCHANGED <<regVars, archVars, apiVars>>

\* stop(): join returns because the thread has left _run.
StopJoined ==
  /\ ucall.pc = "join"
  /\ ~IsAlive(thread)
  /\ thread' = NoThread
  /\ ucall' = [ucall EXCEPT !.pc = "done"]
  /\ UNCHANGED <<running, loops, regVars, archVars, apiVars>>

\* A join without a timeout: it never returns while the thread is alive.
JoinForever ==
  /\ ucall.pc = "join"
  /\ FALSE
  /\ UNCHANGED vars

\* stop(): join(timeout=0.5) returns with the thread still alive; the thread
\* is left to itself.
StopTimeout ==
  /\ ucall.pc = "join"
  /\ IsAlive(thread)
  /\ thread' = NoThread
  /\ ucall' = [ucall EXCEPT !.pc = "done"]
  /\ UNCHANGED <<running, loops, regVars, archVars, apiVars>>

\* The caller has the call's return and goes on.
UpdaterReturn ==
  /\ ucall.pc = "done"
  /\ ucall' = IdleCall
  /\ UNCHANGED <<running, thread, loops, regVars, archVars, apiVars>>

\* `while self._running:` that does not read the flag.
LoopCheckNoFlag(t) ==
  /\ loops[t].pc = "check"
  /\ loops' = [loops EXCEPT ![t] = [pc |-> "update", raised |-> loops[t].raised]]
  /\ UNCHANGED <<running, thread, ucall, regVars, archVars, apiVars>>

\* _run: `while self._running:`; the update pass begins, or the thread
\* leaves _run.
LoopCheck(t) ==
  /\ loops[t].pc = "check"
  /\ loops' = [loops EXCEPT ![t] = IF running
                                   THEN [pc |-> "update", raised |-> loops[t].raised]
                                   ELSE NoLoop]
  /\ UNCHANGED <<running, thread, ucall, regVars, archVars, apiVars>>

\* The body of _run without its try/except: an exception ends the thread.
LoopUpdateNoCatch(t, ok) ==
  /\ loops[t].pc = "update"
  /\ loops' = [loops EXCEPT ![t] = IF ok THEN [pc |-> "sleep", raised |-> FALSE]
                                         ELSE NoLoop]
  /\ UNCHANGED <<running, thread, ucall, regVars, archVars, apiVars>>

\* _run: the update pass (update_all and the logging of its results) ends,
\* normally or with an exception that is logged; the thread goes to sleep.
LoopUpdate(t, ok) ==
  /\ loops[t].pc = "update"
  /\ loops' = [loops EXCEPT ![t] = [pc |-> "sleep", raised |-> ~ok]]
  /\ UNCHANGED <<running, thread, ucall, regVars, archVars, apiVars>>

\* _run: time.sleep(self.interval) returns.
LoopWake(t) ==
  /\ loops[t].pc = "sleep"
  /\ loops' = [loops EXCEPT ![t].pc = "check"]
  /\ UNCHANGED <<running, thread, ucall, regVars, archVars, apiVars>>

\* ------------------------------------------------------ specifications
QuietArchive ==
  /\ fs = [repo |-> FALSE, tpl |-> AbsentTree, zip |-> FALSE, tmp |-> AbsentTmp]
  /\ cfg = [version |-> DefaultVersion, auto_update |-> FALSE, enabled |-> TRUE]
  /\ sync = IdleSync
  /\ prev = NoPrev
  /\ look = IdleLook

QuietApi ==
  /\ api = [enabled |-> TRUE, api_key |-> "key", verified |-> FALSE]
  /\ apiret = NoApiCall

\* ResourceUpdater.__init__
QuietUpdater ==
  /\ running = FALSE
  /\ thread = NoThread
  /\ loops = [t \in LoopIds |-> NoLoop]
  /\ ucall = IdleCall

QuietRegistry ==
  /\ plugins = <<>>
  /\ regOrder = <<>>
  /\ ret = NoReturn
  /\ called = <<>>

\* The manager as constructed: no plugin registered.
InitRegistry ==
  /\ plugins = <<>>
  /\ regOrder = <<>>
  /\ ret = NoReturn
  /\ called = <<>>
  /\ QuietArchive
  /\ QuietApi
  /\ QuietUpdater

NextRegistry ==
  \/ \E a \in PluginAttrs : Register(a)
  \/ \E n \in Names \cup {"Foo"} : Unregister(n)
  \/ \E n \in Names \cup {"Foo"} : GetPlugin(n)
  \/ ListPlugins

SpecRegistry == InitRegistry /\ [][NextRegistry]_vars

\* The registries register() can build: up to MaxPlugins plugins in
\* non-decreasing priority order, the ids in registration order.
Registries ==
  UNION {
    { [i \in 1..n |-> MkPlugin(i, f[i])] : f \in
        { g \in [1..n -> PluginAttrs] :
            \A i \in 1..(n - 1) : g[i].priority <= g[i + 1].priority } }
    : n \in 0..MaxPlugins }

InitDispatch ==
  /\ plugins \in Registries
  /\ regOrder = [i \in 1..Len(plugins) |-> plugins[i].id]
  /\ ret = NoReturn
  /\ called = <<>>
  /\ QuietArchive
  /\ QuietApi
  /\ QuietUpdater

NextDispatch ==
  \/ \E c \in CveIds, src \in SourceArgs, beh \in [PluginIds -> Behaviours] :
       Fetch(c, src, beh)
  \/ \E c \in CveIds, beh \in [PluginIds -> Behaviours] : FetchAll(c, beh)
  \/ Respond

SpecDispatch == InitDispatch /\ [][NextDispatch]_vars

\* The archive plugin as constructed, over the directory a fresh host or an
\* earlier run of the server left.
InitArchive ==
  /\ plugins = <<>>
  /\ regOrder = <<>>
  /\ ret = NoReturn
  /\ called = <<>>
  /\ cfg \in [version : {NormalizeVersion(v) : v \in ConfiguredVersions},
              auto_update : BOOLEAN, enabled : {TRUE}]
  /\ fs \in {[repo |-> FALSE, tpl |-> AbsentTree, zip |-> FALSE, tmp |-> AbsentTmp]}
            \cup {[repo |-> TRUE, tpl |-> t, zip |-> FALSE, tmp |-> AbsentTmp] :
                    t \in {AbsentTree} \cup {Installed(NormalizeVersion(v)) :
                                              v \in ConfiguredVersions}}
  /\ sync = IdleSync
  /\ prev = NoPrev
  /\ look = IdleLook
  /\ QuietApi
  /\ QuietUpdater

\* The identifier the lookups ask for: "CVE-1", whose file is in every release.
LookupIds == { <<"C", "V", "E", "-", "1">> }

NextArchive ==
  \/ \E mkdirOk \in BOOLEAN, lat \in LatestOutcomes, readOk \in BOOLEAN :
       CallInitialize(mkdirOk, lat, readOk)
  \/ \E lat \in LatestOutcomes, readOk \in BOOLEAN : CallUpdate(lat, readOk)
  \/ RmtreeFile
  \/ RmtreeDir
  \/ RmtreeFail
  \/ \E getOk \in BOOLEAN, writeOk \in BOOLEAN : Download(getOk, writeOk)
  \/ \E ok \in BOOLEAN, layout \in {"nested", "flat"} :
       \E part \in SUBSET {CommonFile} : Extract(ok, layout, part)
  \/ \E ok \in BOOLEAN : Unlink(ok)
  \/ \E ok \in BOOLEAN : Rename(ok)
  \/ \E ok \in BOOLEAN : Rmdir(ok)
  \/ \E ok \in BOOLEAN : SaveVersion(ok)
  \/ \E unlinkOk \in BOOLEAN, rmOk \in BOOLEAN : Cleanup(unlinkOk, rmOk)
  \/ \E c \in LookupIds : LookupStart(c)
  \/ \E scanOk \in BOOLEAN : \E u \in SUBSET fs.tpl.files : LookupWalk(u, scanOk)

SpecArchive == InitArchive /\ [][NextArchive]_vars

\* The lookup alone, over the directories a sync can have left: a file named
\* in lower case with a suffix, one in upper case, one in mixed case with a
\* prefix, one without an identifier; asked for identifiers in upper, lower
\* and mixed case and for one no file carries.
MixedFile == <<"x", "C", "v", "e", "-", "1">>
LookupFiles == {CommonFile, OldFile, MixedFile, NewFile}
LookupArgs ==
  { <<"C", "V", "E", "-", "1">>, <<"c", "v", "e", "-", "1">>,
    <<"C", "v", "E", "-", "2">>, <<"C", "V", "E", "-", "3">> }

InitLookup ==
  /\ QuietRegistry
  /\ QuietApi
  /\ QuietUpdater
  /\ cfg \in [version : {DefaultVersion}, auto_update : {FALSE}, enabled : BOOLEAN]
  /\ fs \in {[repo |-> TRUE, tpl |-> t, zip |-> FALSE, tmp |-> AbsentTmp] :
               t \in {AbsentTree} \cup
                     {[exists |-> TRUE, files |-> F, sentinel |-> DefaultVersion] :
                        F \in SUBSET LookupFiles}}
  /\ sync = IdleSync
  /\ prev = NoPrev
  /\ look = IdleLook

NextLookup ==
  \/ \E c \in LookupArgs : LookupStart(c)
  \/ \E scanOk \in BOOLEAN : \E u \in SUBSET fs.tpl.files : LookupWalk(u, scanOk)

SpecLookup == InitLookup /\ [][NextLookup]_vars

\* The API plugin as its constructor leaves it, for every api_key and
\* enabled argument.
InitApi ==
  /\ QuietRegistry
  /\ QuietArchive
  /\ QuietUpdater
  /\ api \in [enabled : BOOLEAN, api_key : ApiKeys, verified : {FALSE}]
  /\ apiret = NoApiCall

NextApi ==
  \/ \E resp \in ApiResponses : ApiInitialize(resp)
  \/ \E resp \in ApiResponses : ApiUpdate(resp)
  \/ \E c \in CveIds, resp \in ApiResponses : ApiFetchCve(c, resp)
  \/ \E c \in CveIds, resp \in ApiResponses : ApiManagerFetch(c, resp)
  \/ \E c \in CveIds, resp \in ApiResponses : ApiManagerFetchAll(c, resp)
  \/ \E resp \in ApiResponses : ApiManagerUpdateAll(resp)

SpecApi == InitApi /\ [][NextApi]_vars

\* The manager over its life: plugins are registered and unregistered, looked
\* up, initialized, updated and queried, in any order, one call at a time.
\* The calls are made for one identifier; a plugin answers a fetch with a
\* result or None and an initialize/update with True or False (what a plugin
\* that raises does to these calls is explored under the dispatch and batch
\* specifications).
ManagerIds == { <<"c", "v", "e", "-", "1">> }
ManagerSources == {NoSource, "Foo"} \cup Names
ManagerBehaviours == {"result", "notfound"}
ManagerOutcomes == {o \in SyncOutcomes : o.res # "raise" /\ o.keep}

NextManager ==
  \/ \E a \in PluginAttrs : ret = NoReturn /\ Register(a)
  \/ \E n \in Names \cup {"Foo"} : ret = NoReturn /\ Unregister(n)
  \/ \E n \in Names \cup {"Foo"} : ret = NoReturn /\ GetPlugin(n)
  \/ \E c \in ManagerIds, src \in ManagerSources,
        beh \in [PluginIds -> ManagerBehaviours] : Fetch(c, src, beh)
  \/ \E c \in ManagerIds, beh \in [PluginIds -> ManagerBehaviours] : FetchAll(c, beh)
  \/ \E beh \in [PluginIds -> ManagerOutcomes] : InitializeAll(beh)
  \/ \E beh \in [PluginIds -> ManagerOutcomes] : UpdateAll(beh)
  \/ Respond

SpecManager == InitRegistry /\ [][NextManager]_vars

\* The batch calls over the registries register() can build.
InitBatch ==
  /\ plugins \in Registries
  /\ regOrder = [i \in 1..Len(plugins) |-> plugins[i].id]
  /\ ret = NoReturn
  /\ called = <<>>
  /\ QuietArchive
  /\ QuietApi
  /\ QuietUpdater

NextBatch ==
  \/ \E beh \in [PluginIds -> SyncOutcomes] : InitializeAll(beh)
  \/ \E beh \in [PluginIds -> SyncOutcomes] : UpdateAll(beh)
  \/ Respond

SpecBatch == InitBatch /\ [][NextBatch]_vars

\* The updater as constructed; start() and stop() come from one caller, the
\* loop threads run beside it.
InitUpdater ==
  /\ QuietRegistry
  /\ QuietArchive
  /\ QuietApi
  /\ QuietUpdater

NextUpdater ==
  \/ Start
  \/ Stop
  \/ StopJoined
  \/ StopTimeout
  \/ UpdaterReturn
  \/ \E t \in LoopIds : LoopCheck(t)
  \/ \E t \in LoopIds, ok \in BOOLEAN : LoopUpdate(t, ok)
  \/ \E t \in LoopIds : LoopWake(t)

SpecUpdater == InitUpdater /\ [][NextUpdater]_vars

\* Every loop thread keeps going: the flag is read, the update pass ends and
\* the sleep returns.
SpecUpdaterLoopFair ==
  /\ SpecUpdater
  /\ \A t \in LoopIds :
       /\ WF_vars(LoopCheck(t))
       /\ WF_vars(\E ok \in BOOLEAN : LoopUpdate(t, ok))
       /\ WF_vars(LoopWake(t))

\* Only the caller keeps going: join returns, because the thread has ended
\* or because the timeout has expired. Nothing is assumed of the loop
\* threads, which sleep for hours.
SpecUpdaterStopFair ==
  /\ SpecUpdater
  /\ WF_vars(StopJoined)
  /\ WF_vars(StopTimeout)
  /\ WF_vars(UpdaterReturn)

\* ------------------------------------ the archive plugin under refresh
\* A host without the templates directory.
InitRefresh ==
  /\ InitArchive
  /\ ~fs.tpl.exists

\* initialize_all at start-up: the plugin's initialize(), once.
StartupInitialize(mkdirOk, lat, readOk) ==
  /\ sync.op = "none"
  /\ CallInitialize(mkdirOk, lat, readOk)

\* A cycle of the refresh loop: update_all calls the enabled plugin's
\* update().
RefreshUpdate(lat, readOk) ==
  /\ sync.op # "none"
  /\ cfg.enabled
  /\ CallUpdate(lat, readOk)

NextRefresh ==
  \/ \E mkdirOk \in BOOLEAN, lat \in LatestOutcomes, readOk \in BOOLEAN :
       StartupInitialize(mkdirOk, lat, readOk)
  \/ \E lat \in LatestOutcomes, readOk \in BOOLEAN : RefreshUpdate(lat, readOk)
  \/ RmtreeFile
  \/ RmtreeDir
  \/ RmtreeFail
  \/ \E getOk \in BOOLEAN, writeOk \in BOOLEAN : Download(getOk, writeOk)
  \/ \E ok \in BOOLEAN, layout \in {"nested", "flat"} :
       \E part \in SUBSET {CommonFile} : Extract(ok, layout, part)
  \/ \E ok \in BOOLEAN : Unlink(ok)
  \/ \E ok \in BOOLEAN : Rename(ok)
  \/ \E ok \in BOOLEAN : Rmdir(ok)
  \/ \E ok \in BOOLEAN : SaveVersion(ok)
  \/ \E unlinkOk \in BOOLEAN, rmOk \in BOOLEAN : Cleanup(unlinkOk, rmOk)

SpecRefresh == InitRefresh /\ [][NextRefresh]_vars

\* The refresh loop keeps running (a next cycle always comes, and a call
\* that has begun goes on to its end), and the network and the disk are
\* reachable again and again: a step that is tried again and again
\* succeeds at some try.
SpecRefreshFair ==
  /\ SpecRefresh
  /\ WF_vars(\E lat \in LatestOutcomes, readOk \in BOOLEAN : RefreshUpdate(lat, readOk))
  /\ WF_vars(RmtreeFile \/ RmtreeDir \/ RmtreeFail)
  /\ SF_vars(RmtreeFile \/ RmtreeDir)
  /\ WF_vars(\E getOk \in BOOLEAN, writeOk \in BOOLEAN : Download(getOk, writeOk))
  /\ SF_vars(Download(TRUE, TRUE))
  /\ WF_vars(\E ok \in BOOLEAN, layout \in {"nested", "flat"} :
               \E part \in SUBSET {CommonFile} : Extract(ok, layout, part))
  /\ SF_vars(\E layout \in {"nested", "flat"} :
               \E part \in SUBSET {CommonFile} : Extract(TRUE, layout, part))
  /\ WF_vars(\E ok \in BOOLEAN : Unlink(ok))
  /\ SF_vars(Unlink(TRUE))
  /\ WF_vars(\E ok \in BOOLEAN : Rename(ok))
  /\ SF_vars(Rename(TRUE))
  /\ WF_vars(\E ok \in BOOLEAN : Rmdir(ok))
  /\ SF_vars(Rmdir(TRUE))
  /\ WF_vars(\E ok \in BOOLEAN : SaveVersion(ok))
  /\ WF_vars(\E unlinkOk \in BOOLEAN, rmOk \in BOOLEAN : Cleanup(unlinkOk, rmOk))
  /\ SF_vars(Cleanup(TRUE, TRUE))

\* ------------------------------------------------- the server (main.py)
\* What main.py registers: the archive plugin when it is configured on (its
\* directory there or not), the API plugin when it is configured on and has
\* a key; both enabled, the archive plugin registered first.
ServerPlugins ==
  LET nuclei(r) == [name |-> NucleiName, priority |-> NucleiDefaultPriority,
                    enabled |-> TRUE, ready |-> r]
      pd == [name |-> PDName, priority |-> PDDefaultPriority,
             enabled |-> TRUE, ready |-> TRUE]
  IN { <<>>, <<MkPlugin(1, pd)>> }
       \cup { <<MkPlugin(1, nuclei(r))>> : r \in BOOLEAN }
       \cup { SortByPriority(<<MkPlugin(1, nuclei(r)), MkPlugin(2, pd)>>) : r \in BOOLEAN }

\* The main thread, as a task that syncs plugin directories.
MainThread == 0

\* main.py after the registrations, before initialize_all.
InitServer ==
  /\ plugins \in ServerPlugins
  /\ regOrder = [i \in 1..Len(plugins) |-> i]
  /\ ret = NoReturn
  /\ called = <<>>
  /\ QuietArchive
  /\ QuietApi
  /\ QuietUpdater

\* main.py: plugin_manager.initialize_all() is called, on the main thread.
ServerInitializeAllCall ==
  /\ ucall = IdleCall
  /\ ret = NoReturn
  /\ ucall' = [op |-> "initialize_all", pc |-> "run", wasRunning |-> running]
  /\ UNCHANGED <<running, thread, loops, regVars, archVars, apiVars>>

\* main.py: initialize_all() returns its results.
ServerInitializeAllReturn(beh) ==
  /\ ucall.op = "initialize_all"
  /\ LET l == InitializeAllLoop(plugins, beh, <<>>, <<>>, <<>>) IN
       /\ ret' = BatchReturn("initialize_all", l, plugins)
       /\ called' = l.log
       /\ plugins' = l.plugins
  /\ ucall' = IdleCall
  /\ UNCHANGED <<regOrder, running, thread, loops, archVars, apiVars>>

\* main.py calling resource_updater.start() as its first statement, before
\* initialize_all.
ServerStartFirst ==
  /\ ~running
  /\ Start

\* main.py: resource_updater.start(), after initialize_all has returned.
ServerStart ==
  /\ ret.kind = "initialize_all"
  /\ ~running
  /\ Start

\* main.py: start() returns and the server runs.
ServerStartReturn ==
  /\ ucall.op = "start"
  /\ UpdaterReturn

\* main.py: signal_handler, or the except branches of the server's run:
\* resource_updater.stop().
ServerSignal ==
  /\ ret.kind = "initialize_all"
  /\ running
  /\ Stop

\* main.py: sys.exit after stop(); the daemon threads end with the process.
ServerExit ==
  /\ ucall.op = "stop"
  /\ ucall.pc = "done"
  /\ ucall' = [op |-> "exit", pc |-> "exited", wasRunning |-> ucall.wasRunning]
  /\ loops' = [t \in LoopIds |-> NoLoop]
  /\ UNCHANGED <<running, thread, regVars, archVars, apiVars>>

NextServer ==
  \/ ServerInitializeAllCall
  \/ \E beh \in [PluginIds -> SyncOutcomes] : ServerInitializeAllReturn(beh)
  \/ ServerStart
  \/ ServerStartReturn
  \/ ServerSignal
  \/ StopJoined
  \/ StopTimeout
  \/ ServerExit
  \/ \E t \in LoopIds : LoopCheck(t)
  \/ \E t \in LoopIds, ok \in BOOLEAN : LoopUpdate(t, ok)
  \/ \E t \in LoopIds : LoopWake(t)

SpecServer == InitServer /\ [][NextServer]_vars

\* --------------------------------------------------------- properties
\* Helpers of the statements below.
CalledIds == {called[k].id : k \in 1..Len(called)}
Position(s, i) == CHOOSE k \in 1..Len(s) : s[k].id = i
Queried == PluginsToQuery(plugins, ret.arg_source)

\* C2 (SpecDispatch): in one fetch call, a fetch_cve invocation that returns
\* a result is the last invocation of the call, and no plugin that comes
\* later in the list than the plugin that returned it is invoked.
C2_DispatchShortCircuits ==
  ret.kind = "fetch" =>
    \A k \in 1..Len(called) :
      called[k].res = "result" =>
        /\ k = Len(called)
        /\ \A j \in 1..Len(plugins) :
             j > Position(plugins, called[k].id) => plugins[j].id \notin CalledIds

\* Two enabled and available plugins, the first returned a result and the
\* second was not invoked.
C2_Witness ==
  /\ ret.kind = "fetch" /\ ret.success /\ ret.arg_source = NoSource
  /\ Len(plugins) = 2
  /\ IsAvailable(plugins[1]) /\ IsAvailable(plugins[2])
  /\ Len(called) = 1 /\ called[1].id = plugins[1].id /\ called[1].res = "result"

\* Plugin i was registered before plugin j.
RegisteredBefore(i, j) ==
  \E a, b \in 1..Len(regOrder) : a < b /\ regOrder[a] = i /\ regOrder[b] = j

\* C3 (SpecRegistry): after any sequence of register and unregister calls
\* the plugin list is in non-decreasing priority order, plugins of equal
\* priority are in their registration order, and list() returns the plugins
\* in that order.
C3_RegistryOrdered ==
  /\ \A i, j \in 1..Len(plugins) :
       i < j =>
         /\ plugins[i].priority <= plugins[j].priority
         /\ plugins[i].priority = plugins[j].priority =>
              RegisteredBefore(plugins[i].id, plugins[j].id)
  /\ ret.kind = "list" =>
       /\ Len(ret.value) = Len(plugins)
       /\ \A i \in 1..Len(plugins) :
            /\ ret.value[i].name = plugins[i].name
            /\ ret.value[i].priority = plugins[i].priority
       /\ \A i, j \in 1..Len(ret.value) :
            i < j => ret.value[i].priority <= ret.value[j].priority

\* list() over two plugins of equal priority, the one registered later (after
\* an unregister freed the smaller id) listed second.
C3_Witness ==
  /\ ret.kind = "list" /\ Len(ret.value) = 2
  /\ plugins[1].priority = plugins[2].priority
  /\ plugins[1].id > plugins[2].id
  /\ regOrder = <<plugins[1].id, plugins[2].id>>

\* C4 (SpecDispatch): in fetch and in fetch_all, every plugin whose fetch_cve
\* is invoked is enabled and available when it is reached, and a plugin of
\* the list that is disabled or unavailable is not invoked.
C4_SkippedNeverQueried ==
  ret.kind \in {"fetch", "fetch_all"} =>
    /\ \A k \in 1..Len(called) : called[k].enabled /\ called[k].available
    /\ \A i \in 1..Len(plugins) :
         (~plugins[i].enabled \/ ~IsAvailable(plugins[i])) =>
           plugins[i].id \notin CalledIds

\* A fetch that skipped an enabled but unavailable plugin and invoked the
\* next one.
C4_Witness ==
  /\ ret.kind = "fetch" /\ ret.arg_source = NoSource
  /\ Len(plugins) = 2
  /\ plugins[1].enabled /\ ~plugins[1].ready
  /\ Len(called) = 1 /\ called[1].id = plugins[2].id

\* C5 (SpecDispatch): when fetch succeeds, the outcome's source is the name
\* of the first plugin of the queried list, among the enabled and available
\* ones, whose fetch_cve returned a result: that plugin was invoked and
\* returned a result, and every enabled and available plugin before it was
\* invoked and returned none.
C5_FirstResultWins ==
  (ret.kind = "fetch" /\ ret.success) =>
    \E i \in 1..Len(Queried) :
      /\ IsAvailable(Queried[i])
      /\ ret.source = Queried[i].name
      /\ \E k \in 1..Len(called) :
           called[k].id = Queried[i].id /\ called[k].res = "result"
      /\ \A j \in 1..(i - 1) :
           IsAvailable(Queried[j]) =>
             /\ \E k \in 1..Len(called) : called[k].id = Queried[j].id
             /\ \A k \in 1..Len(called) :
                  called[k].id = Queried[j].id => called[k].res # "result"

\* Priorities 50 and 100, both available, the first has no match and the
\* second has one: success, with the second plugin's name as the source.
C5_Witness ==
  /\ ret.kind = "fetch" /\ ret.success /\ ret.arg_source = NoSource
  /\ Len(plugins) = 2
  /\ plugins[1].priority = PDDefaultPriority
  /\ plugins[2].priority = NucleiDefaultPriority
  /\ plugins[1].name # plugins[2].name
  /\ IsAvailable(plugins[1]) /\ IsAvailable(plugins[2])
  /\ Len(called) = 2 /\ called[1].res = "none" /\ called[2].res = "result"
  /\ ret.source = plugins[2].name

\* C7 (SpecDispatch): fetch_all invokes fetch_cve exactly once on every
\* enabled and available plugin, whatever the plugins before it returned.
C7_FetchAllQueriesEach ==
  ret.kind = "fetch_all" =>
    \A i \in 1..Len(plugins) :
      IsAvailable(plugins[i]) =>
        Cardinality({k \in 1..Len(called) : called[k].id = plugins[i].id}) = 1

\* A fetch_all whose first plugin returned a result and whose second plugin
\* was invoked all the same.
C7_Witness ==
  /\ ret.kind = "fetch_all"
  /\ Len(called) = 2
  /\ called[1].res = "result"
  /\ called[2].id = plugins[2].id

\* C9 (SpecDispatch): fetch never raises: it returns an outcome with a
\* success field; a plugin whose fetch_cve raised is followed by the next
\* enabled and available plugin of the list, and when the call fails the
\* exception's message is among the details under that plugin's name.
C9_FetchNeverRaises ==
  /\ ret.kind # "raised"
  /\ ret.kind = "fetch" =>
       /\ "success" \in DOMAIN ret
       /\ ret.success \in BOOLEAN
       /\ \A k \in 1..Len(called) :
            called[k].res = "raise" =>
              /\ ~ret.success =>
                   \E d \in 1..Len(ret.details) :
                     ret.details[d] = Diag(called[k].name, "boom")
              /\ \A j \in 1..Len(Queried) :
                   ( /\ j > Position(Queried, called[k].id)
                     /\ IsAvailable(Queried[j])
                     /\ \A m \in (Position(Queried, called[k].id) + 1)..(j - 1) :
                          ~IsAvailable(Queried[m]) )
                   => (k < Len(called) /\ called[k + 1].id = Queried[j].id)

\* The first plugin raised, the second was invoked and returned the result.
C9_Witness ==
  /\ ret.kind = "fetch" /\ ret.success
  /\ Len(called) = 2
  /\ called[1].res = "raise" /\ called[2].res = "result"
  /\ ret.source = called[2].name

\* A complete installation: the directory holds the files of the release its
\* sentinel file names.
IsInstalled(tree) ==
  /\ tree.exists
  /\ tree.sentinel # NoVersion
  /\ tree.files = Corpus(tree.sentinel)

SyncDone == sync.pc = "done" /\ sync.op \in {"initialize", "update"}

\* C1 (SpecArchive): when initialize() or update() began a resync over an
\* installed version (whose sentinel file it could read) and the download or
\* the extraction failed, a call that returns returns False, and the
\* templates directory is then as it was before the call, its sentinel file
\* still naming the old version.
C1_RollbackKeepsInstalled ==
  ( /\ SyncDone
    /\ IsInstalled(sync.pre)
    /\ sync.readOk
    /\ sync.failed \in {"download", "extract"}
    /\ sync.res # "raised" )
  => ( /\ sync.res = "false"
       /\ fs.tpl = sync.pre )

\* C6 (SpecArchive): initialize() is idempotent. When the sentinel file can
\* be read and names the target and the directory exists, initialize()
\* downloads nothing and returns True; and an initialize() that follows an
\* initialize() which downloaded the same target and returned True downloads
\* nothing, so that the two calls make exactly one download.
C6_InitializeIdempotent ==
  ( /\ sync.pc = "done" /\ sync.op = "initialize"
    /\ sync.failed # "mkdir"
    /\ sync.readOk )
  => ( /\ ( sync.pre.exists /\ sync.pre.sentinel = sync.target )
            => ( sync.downloads = 0 /\ sync.res = "true" )
       /\ ( prev.op = "initialize" /\ prev.target = sync.target )
            => prev.downloads + sync.downloads = 1 )

\* An update() that replaces an installed release is under way, and the
\* files of both the installed release and the release being installed
\* include one that matches the identifier.
ResyncOver(cve_id) ==
  /\ sync.op = "update"
  /\ sync.pc \notin {"idle", "done"}
  /\ IsInstalled(sync.pre)
  /\ \E f \in sync.pre.files : Matches(cve_id, f)
  /\ \E f \in Corpus(sync.target) : Matches(cve_id, f)

\* C8 (SpecArchive): a lookup that completes while an update() replaces the
\* installed release, for an identifier whose file is in the old and in the
\* new release (and can be read), finds the file.
C8_LookupDuringResyncFinds ==
  [][ ( /\ look'.pc = "done"
        /\ look' # look
        /\ ResyncOver(look'.cve_id)
        /\ ~look'.readFailed )
      => look'.res = "found" ]_vars

\* C10 (SpecArchive): initialize() and update() never raise: every completed
\* call returned True or False.
C10_SyncNeverRaises ==
  SyncDone => sync.res \in {"true", "false"}

\* C11 (SpecArchive): fetch_cve of the archive plugin never raises: every
\* lookup completed after startup (beside no call, or beside an update())
\* returned a result or not-found, whatever happened to the files and
\* directories it walked.
C11_FetchCveNeverRaises ==
  (look.pc = "done" /\ sync.op # "initialize")
    => look.res \in {"found", "notfound"}

\* C12 (SpecUpdater): start() while the flag is set creates no thread and
\* changes nothing of the updater, and stop() while the flag is not set
\* changes nothing of it and returns at once.
C12_StartStopNotReentrant ==
  [][ /\ (ucall.op = "none" /\ ucall'.op = "start" /\ running)
           => ( /\ UNCHANGED <<running, thread, loops>>
                /\ ucall'.pc = "done" )
      /\ (ucall.op = "none" /\ ucall'.op = "stop" /\ ~running)
           => ( /\ UNCHANGED <<running, thread, loops>>
                /\ ucall'.pc = "done" ) ]_vars

\* start() has returned from a call made while the loop was running, and
\* one thread runs the loop.
C12_Witness ==
  /\ ucall.op = "start" /\ ucall.wasRunning
  /\ running
  /\ Cardinality({t \in LoopIds : loops[t].pc # "none"}) = 1

\* C13 (SpecUpdaterLoopFair): a thread whose update pass ended with an
\* exception goes on: unless the flag is cleared it begins another update
\* pass; and whenever the flag is set, an update pass is begun later unless
\* the flag is cleared.
C13_BadCycleKeepsLoop ==
  /\ \A t \in LoopIds :
       (loops[t].pc = "sleep" /\ loops[t].raised)
         ~> (~running \/ loops[t].pc = "update")
  /\ running ~> (~running \/ \E t \in LoopIds : loops[t].pc = "update")

\* A thread is in the update pass that follows a pass which raised.
C13_Witness ==
  /\ running
  /\ \E t \in LoopIds : loops[t].pc = "update" /\ loops[t].raised

\* C14 (SpecUpdater): while the flag stays cleared no update pass begins,
\* and an update pass in flight is never cut short: from the update pass a
\* thread only goes on to its sleep, whatever stop() does.
C14_StopAtWakeBoundary ==
  [][ /\ (~running /\ ~running')
           => \A t \in LoopIds :
                loops'[t].pc = "update" => loops[t].pc = "update"
      /\ \A t \in LoopIds :
           loops[t].pc = "update" => loops'[t].pc \in {"update", "sleep"} ]_vars

\* stop() has cleared the flag and an update pass is still in flight.
C14_Witness ==
  /\ ucall.op = "stop" /\ ucall.wasRunning
  /\ ~running
  /\ \E t \in LoopIds : loops[t].pc = "update"

\* C15 (SpecUpdaterStopFair): stop() always returns: it has cleared the flag
\* when it waits for the thread, the wait ends even if the thread never
\* moves, and the flag is cleared when stop() returns.
C15_StopAlwaysReturns ==
  /\ [](ucall.pc = "join" => ~running)
  /\ (ucall.pc = "join") ~> (ucall.op = "stop" /\ ucall.pc = "done")
  /\ []((ucall.op = "stop" /\ ucall.pc = "done") => ~running)

\* stop() has returned and the thread it waited for is still asleep or in
\* its update pass.
C15_Witness ==
  /\ ucall.op = "stop" /\ ucall.pc = "done" /\ ucall.wasRunning
  /\ thread = NoThread
  /\ \E t \in LoopIds : loops[t].pc \in {"sleep", "update"}

\* C16 (SpecDispatch): fetch on a registry with no plugin returns the
\* failure outcome "no sources" with the requested identifier, for every
\* source argument, and invokes nothing.
C16_EmptyRegistryFails ==
  (ret.kind = "fetch" /\ plugins = <<>>) =>
    /\ ret.success = FALSE
    /\ ret.error = <<"no plugins">>
    /\ ret.cve_id = ret.arg_id
    /\ DOMAIN ret = {"kind", "success", "error", "cve_id", "arg_id", "arg_source"}
    /\ called = <<>>

\* fetch on the empty registry with a source name given.
C16_Witness ==
  /\ ret.kind = "fetch" /\ plugins = <<>>
  /\ ret.arg_source = "Foo"
  /\ ~ret.success

\* C17 (SpecDispatch): fetch with a source name that no registered plugin
\* has (the registry not being empty) returns a failure outcome that lists
\* the names of all registered plugins, in list order, and invokes fetch_cve
\* on no plugin.
C17_UnknownSourceFails ==
  ( /\ ret.kind = "fetch"
    /\ plugins # <<>>
    /\ Truthy(ret.arg_source)
    /\ \A i \in 1..Len(plugins) : plugins[i].name # ret.arg_source )
  => ( /\ ret.success = FALSE
       /\ "available_sources" \in DOMAIN ret
       /\ ret.available_sources = [i \in 1..Len(plugins) |-> plugins[i].name]
       /\ ret.cve_id = ret.arg_id
       /\ called = <<>> )

\* fetch with source "Foo" over two enabled and available plugins.
C17_Witness ==
  /\ ret.kind = "fetch" /\ ret.arg_source = "Foo"
  /\ Len(plugins) = 2
  /\ IsAvailable(plugins[1]) /\ IsAvailable(plugins[2])
  /\ ret.available_sources = <<plugins[1].name, plugins[2].name>>

\* The entry of a batch result under a name.
EntryOf(d, n) == d[CHOOSE e \in 1..Len(d) : d[e].name = n]

\* Invocation k is the last one on a plugin of its name.
LastOfName(k) == \A j \in (k + 1)..Len(called) : called[j].name # called[k].name

C20_ApiResultOnlyFor200 ==
  apiret.op = "fetch" =>
    /\ apiret.out.kind \in {"result", "none"}
    /\ apiret.out.kind = "result" =>
         (apiret.resp.kind = "http" /\ apiret.resp.status = 200)
    /\ (apiret.resp.kind = "http" /\ apiret.resp.status # 200) =>
         apiret.out.kind = "none"

\* The available plugin sent a request, got 404 and returned not-found.
C20_Witness ==
  /\ apiret.op = "fetch"
  /\ ApiAvailable(apiret.pre)
  /\ apiret.resp.kind = "http" /\ apiret.resp.status = 404
  /\ apiret.out.kind = "none" /\ apiret.out.requests = 1

ManagerOps == {"manager_fetch", "manager_fetch_all", "manager_update_all"}

\* Nothing reaches a plugin that has no key and is disabled: a direct
\* fetch_cve gives None without a request, and no manager loop invokes it.
NoKeyDisabledSkipped ==
  (apiret.op # "none" /\ apiret.pre.api_key = "" /\ ~apiret.pre.enabled) =>
     /\ apiret.op = "fetch" => (apiret.out.kind = "none" /\ apiret.out.requests = 0)
     /\ apiret.op \in ManagerOps => (apiret.invoked = 0 /\ apiret.requests = 0)

\* C21: initialize() on the API plugin with no api_key sets enabled to False,
\* returns False and sends no request; the plugin then stays disabled and
\* unavailable, and every later fetch_cve, fetch_cve_from_all and update_all
\* of the manager passes over it without invoking it or sending a request.
C21_NoKeyInitializeDisables ==
  /\ [](apiret.op = "initialize" /\ apiret.pre.api_key = "" =>
          apiret.value = FALSE /\ apiret.requests = 0 /\ ~api.enabled)
  /\ [][(api.api_key = "" /\ ~api.enabled) =>
          (api'.api_key = "" /\ ~api'.enabled /\ ~ApiAvailable(api'))]_vars
  /\ []NoKeyDisabledSkipped

\* An enabled plugin without a key has been initialized.
C21_Witness ==
  /\ apiret.op = "initialize"
  /\ apiret.pre.api_key = "" /\ apiret.pre.enabled
  /\ ~api.enabled


\* A probe has run: initialize() or update() on a plugin that has a key.
Probed == apiret.op \in {"initialize", "update"} /\ apiret.pre.api_key # ""

\* C22: the credential probe sends one request and maps its outcome: status
\* 200 is success; 401 and 403 are failure; every other status, 404 and 5xx
\* included, is accepted (the probe returns True although the key has not
\* been checked); a timeout or another transport error is failure.
\* initialize() and update() return the probe's value and cache it.
C22_ProbeOutcomeMapping ==
  Probed =>
    /\ apiret.requests = 1
    /\ apiret.value = CASE apiret.resp.kind \in {"timeout", "error"} -> FALSE
                        [] apiret.resp.status = 200 -> TRUE
                        [] apiret.resp.status \in {401, 403} -> FALSE
                        [] OTHER -> TRUE
    /\ api.verified = apiret.value

\* The probe was answered 404 and initialize() reported success.
C22_Witness ==
  /\ Probed /\ apiret.op = "initialize"
  /\ apiret.resp.kind = "http" /\ apiret.resp.status = 404
  /\ apiret.value = TRUE


\* C23: a probe that fails by a timeout or a transport error does not disable
\* a plugin that has a key: initialize() or update() returns False and leaves
\* enabled as it was, so is_available() is still true of an enabled plugin;
\* and a fetch on an enabled plugin with a key sends its request, directly or
\* through the manager, whatever the cached verified flag says.
C23_FailedProbeKeepsPlugin ==
  /\ (Probed /\ apiret.resp.kind \in {"timeout", "error"}) =>
        /\ apiret.value = FALSE
        /\ api.enabled = apiret.pre.enabled
        /\ api.api_key = apiret.pre.api_key
        /\ apiret.pre.enabled => ApiAvailable(api)
  /\ (apiret.op = "fetch" /\ apiret.pre.enabled /\ apiret.pre.api_key # "") =>
        apiret.out.requests = 1
  /\ (apiret.op \in {"manager_fetch", "manager_fetch_all"}
        /\ apiret.pre.enabled /\ apiret.pre.api_key # "") =>
        (apiret.invoked = 1 /\ apiret.requests = 1)

\* update() timed out on a plugin whose key had been verified before.
C23_Witness ==
  /\ Probed /\ apiret.op = "update" /\ apiret.resp.kind = "timeout"
  /\ apiret.pre.enabled /\ apiret.pre.verified
  /\ ~api.verified /\ api.enabled

\* A fetch through the manager reached the plugin while its cached flag was
\* False, and got a result.
C23_FetchUnverified ==
  /\ apiret.op = "manager_fetch" /\ ~apiret.pre.verified
  /\ apiret.invoked = 1 /\ apiret.found


\* C24: with auto_update off, update() of the archive plugin returns True at
\* once in every state of the directory (absent, installed at another
\* version than the configured one, installed at it): it sends no
\* latest-release request and no download, and the templates directory with
\* its version file is as it was before the call.
C24_UpdateNoAutoIsNoOp ==
  (sync.pc # "idle" /\ sync.op = "update" /\ ~cfg.auto_update) =>
    /\ sync.pc = "done" /\ sync.res = "true"
    /\ sync.lookups = 0 /\ sync.downloads = 0
    /\ fs.tpl = sync.pre

\* update() returned over a directory installed at another version than the
\* configured one.
C24_Witness ==
  /\ sync.pc = "done" /\ sync.op = "update" /\ ~cfg.auto_update
  /\ sync.pre.exists /\ sync.pre.sentinel # cfg.version
  /\ sync.res = "true" /\ fs.tpl = sync.pre


\* Two characters are the same letter, whatever their case.
SameLetter(a, b) == a = b \/ UpperChar(a) = b \/ a = UpperChar(b)

\* The name holds the identifier at some position, letter by letter up to case.
HoldsUpToCase(filename, cve_id) ==
  \E i \in 0..(Len(filename) - Len(cve_id)) :
     \A j \in 1..Len(cve_id) : SameLetter(filename[i + j], cve_id[j])

\* C25: the archive lookup matches without regard to case on both sides: when
\* the plugin is available and some file of the directory holds the
\* identifier in its name up to letter case (and every such file can be
\* read), fetch_cve returns a result; it returns None when no file does, and
\* when the directory is absent or the plugin disabled.
C25_LookupIgnoresCase ==
  look.pc = "done" =>
    LET holders == {f \in fs.tpl.files : HoldsUpToCase(f, look.cve_id)} IN
      /\ look.res \in {"found", "notfound"}
      /\ look.res = "found" => (ArchiveAvailable /\ holders # {})
      /\ (ArchiveAvailable /\ holders # {} /\ ~look.readFailed) => look.res = "found"

\* An identifier in mixed case was found in a directory whose only file
\* carrying it is named in upper case.
C25_Witness ==
  /\ look.pc = "done" /\ look.res = "found"
  /\ look.cve_id = <<"C", "v", "E", "-", "2">>
  /\ OldFile \in fs.tpl.files


\* fetch_cve went through its list without a result.
FetchExhausted ==
  ret.kind = "fetch" /\ ~ret.success /\ "details" \in DOMAIN ret

\* C26: when fetch_cve yields no result, the failure outcome carries one
\* reason for each plugin of the (possibly filtered) list: one for a plugin
\* skipped as disabled, "<name>: not available" for one skipped as
\* unavailable, "<name>: not found" for one that returned None and
\* "<name>: <exception message>" for one that raised.
C26_ReasonForEachPlugin ==
  FetchExhausted =>
    /\ Len(ret.details) = Len(Queried)
    /\ \A j \in 1..Len(Queried) :
         LET p == Queried[j] IN
           /\ ret.details[j].name = p.name
           /\ (p.enabled /\ ~IsAvailable(p)) => ret.details[j].msg = "not available"
           /\ \A k \in 1..Len(called) :
                called[k].id = p.id =>
                  ret.details[j].msg = (IF called[k].res = "raise" THEN "boom"
                                        ELSE "not found")

\* C27: in a failure outcome, sources_checked names exactly the plugins
\* whose fetch_cve was invoked, in that order; a plugin skipped as disabled
\* or as unavailable is not in it.
C27_SourcesCheckedAreInvoked ==
  FetchExhausted =>
    ret.sources_checked = [k \in 1..Len(called) |-> called[k].name]


\* plugins[i] is the first plugin of the registry that has the name.
IsFirstOfName(i, n) ==
  /\ i \in 1..Len(plugins)
  /\ plugins[i].name = n
  /\ \A j \in 1..(i - 1) : plugins[j].name # n

HasName(n) == \E i \in 1..Len(plugins) : plugins[i].name = n

\* register() adds the plugin whatever names are registered, and keeps the others.
RegisterKeepsAll ==
  (ret'.kind = "register" /\ ret' # ret) =>
    /\ Len(plugins') = Len(plugins) + 1
    /\ \E i \in 1..Len(plugins') : plugins'[i].id = ret'.id
    /\ \A i \in 1..Len(plugins) : \E j \in 1..Len(plugins') : plugins'[j] = plugins[i]

\* unregister(name) removes the first plugin of that name and nothing else,
\* and returns whether there was one.
UnregisterRemovesFirst ==
  (ret'.kind = "unregister" /\ (ret' # ret \/ plugins' # plugins)) =>
    IF \E i \in 1..Len(plugins) : plugins[i].name = ret'.name
    THEN /\ ret'.value
         /\ \E i \in 1..Len(plugins) :
              /\ IsFirstOfName(i, ret'.name)
              /\ plugins' = RemoveAt(plugins, i)
    ELSE ~ret'.value /\ plugins' = plugins

\* get_plugin(name) returns the first plugin of that name, or None.
GetPluginFirst ==
  ret.kind = "get_plugin" =>
    IF HasName(ret.name)
    THEN ret.found /\ \E i \in 1..Len(plugins) :
                         IsFirstOfName(i, ret.name) /\ plugins[i].id = ret.id
    ELSE ~ret.found

\* A fetch was asked of a source name that is registered.
FetchNamed ==
  ret.kind = "fetch" /\ Truthy(ret.arg_source) /\ HasName(ret.arg_source)

ReturnedResult(i) ==
  \E k \in 1..Len(called) : called[k].id = plugins[i].id /\ called[k].res = "result"

\* fetch_cve with a source name goes through every plugin of that name, in
\* registry order, until one returns a result.
FetchNamedQueriesAll ==
  FetchNamed =>
    /\ \A k \in 1..Len(called) : called[k].name = ret.arg_source
    /\ \A i \in 1..Len(plugins) :
         plugins[i].name = ret.arg_source =>
           ( plugins[i].id \in CalledIds <=>
               /\ IsAvailable(plugins[i])
               /\ \A j \in 1..(i - 1) :
                    plugins[j].name = ret.arg_source => ~ReturnedResult(j) )

\* fetch_cve with a source name invokes the first plugin of that name only.
FetchNamedQueriesFirst ==
  FetchNamed =>
    \A k \in 1..Len(called) :
      \E i \in 1..Len(plugins) :
        IsFirstOfName(i, ret.arg_source) /\ called[k].id = plugins[i].id

\* C28 as stated: register never rejects a name already registered and both
\* plugins stay in the registry; get_plugin, unregister and fetch_cve with a
\* source name act on the first plugin of that name in priority order only;
\* unregister removes exactly one plugin, returns True iff the name was
\* registered and leaves the registry as it was when it returns False.
C28_FirstMatchOnly ==
  /\ [](GetPluginFirst /\ FetchNamedQueriesFirst)
  /\ [][RegisterKeepsAll /\ UnregisterRemovesFirst]_vars

\* C28 amended: as above for register, get_plugin and unregister; fetch_cve
\* with a source name queries every plugin of that name, in priority order,
\* until one of them returns a result.
C28_NameLookups ==
  /\ [](GetPluginFirst /\ FetchNamedQueriesAll)
  /\ [][RegisterKeepsAll /\ UnregisterRemovesFirst]_vars

\* Two plugins share a name; a fetch for that name got None from the first
\* and went on to the second.
C28_Witness ==
  /\ FetchNamed
  /\ Len(plugins) = 2 /\ plugins[1].name = plugins[2].name
  /\ Len(called) = 2
  /\ called[1].id = plugins[1].id /\ called[1].res = "none"
  /\ called[2].id = plugins[2].id


\* The names in a list.
SetOf(l) == {l[i] : i \in 1..Len(l)}

\* C29: fetch_cve_from_all returns the identifier it was given, an
\* entry for every enabled and available plugin holding that plugin's own
\* success or failure (an exception gives a failure entry), and found_in
\* equal to exactly the names of the plugins whose fetch_cve returned a result.
C29_FoundInExact ==
  ret.kind = "fetch_all" =>
    /\ ret.cve_id = ret.arg_id
    /\ SetOf(NamesOf(ret.sources)) = {called[k].name : k \in 1..Len(called)}
    /\ \A k \in 1..Len(called) :
         EntryOf(ret.sources, called[k].name).success = (called[k].res = "result")
    /\ SetOf(ret.found_in) =
         {called[k].name : k \in {j \in 1..Len(called) : called[j].res = "result"}}

\* What fetch_cve_from_all does return: one entry per name, holding the
\* outcome of the last plugin of that name in priority order, and found_in
\* with the names whose entry is a success.
FetchAllKeyedByName ==
  ret.kind = "fetch_all" =>
    /\ ret.cve_id = ret.arg_id
    /\ SetOf(NamesOf(ret.sources)) = {called[k].name : k \in 1..Len(called)}
    /\ Cardinality(SetOf(NamesOf(ret.sources))) = Len(ret.sources)
    /\ \A k \in 1..Len(called) :
         LastOfName(k) =>
           EntryOf(ret.sources, called[k].name).success = (called[k].res = "result")
    /\ SetOf(ret.found_in) =
         {called[k].name : k \in {j \in 1..Len(called) :
                                    LastOfName(j) /\ called[j].res = "result"}}


\* C30 as stated: a plugin's priority and enabled flag are those it was
\* constructed with: no call of the manager or of the plugin changes either.
C30_FlagsFixed ==
  [][\A i \in 1..Len(plugins) : \A j \in 1..Len(plugins') :
       plugins'[j].id = plugins[i].id =>
         /\ plugins'[j].priority = plugins[i].priority
         /\ plugins'[j].enabled = plugins[i].enabled]_vars

\* C30 amended: a plugin's name and priority never change, and its enabled
\* flag changes in one case only: initialize() of an API plugin that has no
\* key clears it. Nothing sets the flag, and no update, fetch or registry
\* operation changes it.
C30_OnlyInitializeDisables ==
  [][\A i \in 1..Len(plugins) : \A j \in 1..Len(plugins') :
       plugins'[j].id = plugins[i].id =>
         /\ plugins'[j].name = plugins[i].name
         /\ plugins'[j].priority = plugins[i].priority
         /\ plugins'[j].enabled # plugins[i].enabled =>
              /\ ret'.kind = "initialize_all"
              /\ plugins[i].name = PDName /\ ~plugins[i].ready
              /\ plugins[i].enabled /\ ~plugins'[j].enabled]_vars

\* initialize_all has run over an enabled API plugin without a key and left
\* it disabled, at the priority it had.
C30_Witness ==
  /\ ret.kind = "initialize_all"
  /\ \E i \in 1..Len(plugins) :
       /\ ret.before[i].id = plugins[i].id
       /\ ret.before[i].name = PDName /\ ~ret.before[i].ready
       /\ ret.before[i].enabled /\ ~plugins[i].enabled
       /\ ret.before[i].priority = plugins[i].priority


\* A fetch of the manager ran over a plugin that has no key.
FetchOverNoKey ==
  apiret.op \in {"manager_fetch", "manager_fetch_all"} /\ apiret.pre.api_key = ""

C32_SuccessMeansCurrent ==
  (SyncDone /\ sync.res = "true" /\ sync.downloads = 1) =>
    (fs.tpl.exists /\ fs.tpl.sentinel = sync.target)

\* C33: after a sync that failed at a step of _download_and_extract (the
\* download, the extraction, the removal of the zip file, the rename), the
\* call has returned False and neither the temporary zip file nor the
\* temporary extraction directory is on disk.
C33_FailedSyncLeavesNoTemp ==
  (SyncDone /\ sync.failed \in {"download", "extract", "unlink", "rename", "rmdir"}) =>
    /\ sync.res = "false"
    /\ ~fs.zip
    /\ ~fs.tmp.exists


\* version is the tag of a release, which the response may give with or
\* without its marker and with blanks around it.
IsTag(version, tag) == version \in {Strip(tag), <<"v">> \o Strip(tag)}

\* The call has computed its target version: an initialize() past the mkdir,
\* or an update() of a plugin with auto-update on.
HasTarget ==
  \/ sync.op = "initialize" /\ sync.failed # "mkdir"
  \/ sync.op = "update" /\ cfg.auto_update

\* C34: the target version of a sync is the configured version when
\* auto-update is off; with auto-update on it is the tag of the latest
\* release, and the configured version when the lookup fails or gives no
\* tag; it always begins with the marker "v".
C34_TargetVersion ==
  HasTarget =>
    /\ sync.target # <<>>
    /\ Head(sync.target) = "v"
    /\ ~cfg.auto_update => (sync.target = cfg.version /\ sync.lookups = 0)
    /\ (cfg.auto_update /\ sync.lat.ok /\ sync.lat.tag # <<>>) =>
         IsTag(sync.target, sync.lat.tag)
    /\ (cfg.auto_update /\ (~sync.lat.ok \/ sync.lat.tag = <<>>)) =>
         sync.target = cfg.version

C34_Witness ==
  /\ sync.op = "initialize" /\ SyncDone /\ sync.res = "true" /\ sync.downloads = 1
  /\ cfg.auto_update
  /\ sync.lat.ok /\ sync.lat.tag = <<>>
  /\ sync.target = cfg.version /\ cfg.version # DefaultVersion


\* C38: an update() with auto-update on, over an installed archive whose
\* version file is readable, changes the templates directory or its version
\* file only when the latest-release request succeeded and gave a version
\* other than the installed one; when the request fails the directory and
\* the version file stay as they were.
C38_FailedLookupKeepsInstalled ==
  (/\ sync.op = "update" /\ cfg.auto_update
   /\ sync.pre.exists /\ sync.pre.sentinel # NoVersion /\ sync.readOk
   /\ fs.tpl # sync.pre) =>
    /\ sync.lat.ok /\ sync.lat.tag # <<>>
    /\ sync.target # Strip(sync.pre.sentinel)


\* C39: whatever fetch_cve(cve_id) returns, a result or a failure and
\* whichever plugin answered, its "cve_id" field is the string the caller
\* passed.
C39_FetchEchoesIdentifier ==
  ret.kind = "fetch" => ret.cve_id = ret.arg_id


\* The threads that are in an update pass of _run.
Updating == {t \in LoopIds : loops[t].pc = "update"}

\* C36: after any sequence of start() and stop() calls, a stop() followed by
\* a start() while the earlier thread still sleeps included, at most one
\* thread runs the refresh loop: no two threads are in an update pass at the
\* same time.
C36_OneLoopThread ==
  Cardinality(Updating) <= 1


\* The tasks that are in a batch of sync operations: the main thread in
\* initialize_all, a loop thread in its update pass.
SyncingTasks ==
  (IF ucall.op = "initialize_all" THEN {MainThread} ELSE {}) \cup Updating

\* C35: in the server no two tasks are in a sync (initialize_all, or an
\* update pass of the refresh loop) at the same time; an update pass begins
\* only after initialize_all has returned; no two update passes overlap.
C35_SingleWriter ==
  /\ Cardinality(SyncingTasks) <= 1
  /\ Updating # {} => (ret.kind = "initialize_all" /\ ucall.op # "initialize_all")
  /\ Cardinality(Updating) <= 1

\* A second or later update pass is in progress over both plugins.
C35_Witness ==
  /\ Len(plugins) = 2
  /\ ret.kind = "initialize_all"
  /\ \E t \in LoopIds : loops[t].pc = "update" /\ loops[t].raised
  /\ Cardinality(SyncingTasks) = 1


\* The start-up initialize() of an enabled archive plugin has failed and
\* there is no templates directory.
StartupFailed ==
  /\ cfg.enabled
  /\ sync.op = "initialize" /\ SyncDone /\ sync.res # "true"
  /\ ~fs.tpl.exists

\* C37: when the start-up initialize() of an enabled archive plugin has
\* failed and left no templates directory, then, the refresh loop running
\* on and the network being reachable again, a later refresh cycle installs
\* the archive and the plugin becomes available, with auto-update on and
\* with auto-update off.
C37_RefreshRecovers ==
  StartupFailed ~> ArchiveAvailable


====
